---- MODULE Spec2Model ----
(***************************************************************************)
(* Offline handwriting recognition of Sarkari-Sarathi:                     *)
(*   - StrokeCapture and StrokeProcessor (stroke_processor.js, kept in     *)
(*     src/unnamed/part_005),                                              *)
(*   - the orchestrator of frontend/offline_handwriting.js (model load,    *)
(*     per-canvas captures, recognizeOffline),                             *)
(*   - the greedy CTC decoder (ctc_decoder.js is not among the sources; it *)
(*     is modelled from the written specification).                        *)
(*                                                                         *)
(* Numbers.  Canvas coordinates are held in units of 1/CoordDen, so the    *)
(* integer k stands for k/CoordDen.  A normalized coordinate or a delta is *)
(* a rational, held as a pair <<num, den>> with den > 0.                   *)
(*                                                                         *)
(* Event loop.  JavaScript runs one task at a time.  A continuation of an  *)
(* await is a microtask; all queued microtasks run before the next task    *)
(* (a pointer event, a timer, a settling network load).  The variable      *)
(* microtasks is that queue: tasks are enabled only while it is empty.     *)
(***************************************************************************)
EXTENDS Integers, Sequences, FiniteSets, TLC

VARIABLES
    strokeCaptures,   \* offline_handwriting.js:28  canvas id -> StrokeCapture
    recognizer,       \* offline_handwriting.js:27  0 = null, else recognizer id
    isModelLoaded,    \* offline_handwriting.js:29
    modelLoadPromise, \* offline_handwriting.js:30  0 = null, else promise id
    modelLoadError,   \* offline_handwriting.js:31  "null" or the stored message
    promises,         \* promise id -> "pending" | "resolved" | "rejected"
    inits,            \* the initOfflineHandwriting invocations, in call order
    calls,            \* the recognizeOffline invocations, in call order
    microtasks,       \* queued await continuations
    modulesLoaded,    \* typeof tf / typeof HandwritingRecognizer are defined
    procIn,           \* StrokeProcessor: the strokes argument and the config
    procOut,          \* StrokeProcessor: the stages of one process() call
    ctcIn,            \* CTCDecoder: the probability matrix
    ctcOut,           \* CTCDecoder: the decoded label sequence
    worker,           \* part_002:19  0 = null, else the Tesseract worker
    isInitialized,    \* part_002:20
    initPromise,      \* part_002:21  "null" | "pending" | "resolved" | "rejected"
    initPc,           \* position of the one initTesseract body that ever runs
    workerPsm,        \* tessedit_pageseg_mode in effect on the worker
    createCount,      \* invocations of Tesseract.createWorker
    jobs,             \* requests posted to the worker, served in order
    tessInits,        \* invocations of TesseractHandwriting.init
    tessCalls,        \* the recognizeFromCanvas invocations, in call order
    ocrIn,            \* cleanOCRResult: the text argument
    ocrOut,           \* cleanOCRResult: the returned text
    cropIn,           \* preprocessCanvas: the canvas argument
    cropOut,          \* preprocessCanvas: the stroke bounds and the crop rectangle
    locationData,        \* app script: <<>> = null, else the one location object
    locationDataPromise, \* app script: 0 = null, else the loadLocationData invocation
    locLoads,            \* the loadLocationData invocations, in call order
    locEnsures,          \* the ensureLocationData calls: the promise each returned
    provinceSelect,      \* the province dropdown of each address group
    districtSelect,      \* the district dropdown of each group
    municipalitySelect,  \* the municipality dropdown of each group
    selectedDocument,    \* app script global; "null" or a document type
    selectedInputMethod, \* app script global; "null" or an input method
    formData,            \* app script global (let binding); "empty" = {}
    windowFormData,      \* window.formData; "undefined" or the data of a submit
    selectCalls,         \* the selectDocument invocations, in call order
    formFields,          \* the form container: "none" or the template shown
    pdfRequests,         \* the bodies generatePDF has sent
    loadingHidden,       \* the loadingOverlay element has the class hidden
    startedNew,          \* history: startNew() ran and no valid form submit since
    submitCalls,         \* the submitFieldCanvasOffline invocations
    fieldValue           \* the value of the field the modal canvas writes to

capVars  == <<strokeCaptures>>
orchVars == <<recognizer, isModelLoaded, modelLoadPromise, modelLoadError,
              promises, inits, calls, microtasks, modulesLoaded>>
procVars == <<procIn, procOut>>
ctcVars  == <<ctcIn, ctcOut>>
tessVars == <<worker, isInitialized, initPromise, initPc, workerPsm, createCount,
              jobs, tessInits, tessCalls>>
ocrVars  == <<ocrIn, ocrOut>>
cropVars == <<cropIn, cropOut>>
locVars  == <<locationData, locationDataPromise, locLoads, locEnsures>>
dropVars == <<provinceSelect, districtSelect, municipalitySelect>>
docVars  == <<selectedDocument, selectedInputMethod, formData, windowFormData,
              selectCalls, formFields, pdfRequests, loadingHidden, startedNew>>
submitVars == <<submitCalls, fieldValue>>
appVars  == <<locVars, dropVars, docVars, submitVars>>
vars     == <<strokeCaptures, recognizer, isModelLoaded, modelLoadPromise,
              modelLoadError, promises, inits, calls, microtasks, modulesLoaded,
              procIn, procOut, ctcIn, ctcOut,
              worker, isInitialized, initPromise, initPc, workerPsm, createCount,
              jobs, tessInits, tessCalls, ocrIn, ocrOut, cropIn, cropOut,
              locationData, locationDataPromise, locLoads, locEnsures,
              provinceSelect, districtSelect, municipalitySelect,
              selectedDocument, selectedInputMethod, formData, windowFormData,
              selectCalls, formFields, pdfRequests, loadingHidden, startedNew,
              submitCalls, fieldValue>>

----------------------------------------------------------------------------
(* Bounds of the model *)

\* pointer events carry clientX in RectLeft .. RectLeft + MaxEvCoord
MaxEvCoord == 1
\* points the captures may hold together (completed strokes and current strokes)
MaxCapPoints == 4
\* coordinates are multiples of 1/CoordDen
CoordDen == 2
\* distances are kept to 1/DistScale of a coordinate unit
DistScale == 1000
\* StrokeProcessor inputs: strokes per stroke set, points per stroke set
MaxProcStrokes == 2
MaxProcPoints == 3
\* StrokeProcessor config: maxSeqLength is drawn from 1..MaxSeqLen
MaxSeqLen == 3
\* CTCDecoder: timesteps of a probability matrix
MaxT == 4
\* orchestrator: initOfflineHandwriting and recognizeOffline invocations together
MaxInvocations == 3
\* orchestrator: points one capture may hold
MaxOrchPoints == 1
\* two canvases with one recognizeOffline caller: initOfflineHandwriting and
\* recognizeOffline invocations together, and points the captures hold together
MaxIsoInvocations == 2
MaxIsoPoints == 2
\* cleanOCRResult: characters of an input text
MaxTextLen == 4
\* TesseractHandwriting: init and recognize invocations together
MaxTessCalls == 2
\* repeated process(): points recorded by the capture, and calls of process()
MaxDetPoints == 3
MaxDetCalls == 2
\* preprocessCanvas: the longest side of a canvas, and the pixels of a canvas
\* that are not fully transparent
MaxSide == 82
MaxPixels == 2
\* location data: calls of ensureLocationData
MaxEnsures == 2
\* document flow: calls of selectDocument and of generatePDF
MaxSelectCalls == 2
MaxPdfRequests == 1
\* calls of submitFieldCanvasOffline
MaxSubmitCalls == 2

----------------------------------------------------------------------------
(* Helpers *)

Max(a, b) == IF a >= b THEN a ELSE b
Min(a, b) == IF a <= b THEN a ELSE b

RECURSIVE SumLen(_)
SumLen(ss) == IF ss = <<>> THEN 0 ELSE Len(Head(ss)) + SumLen(Tail(ss))

----------------------------------------------------------------------------
(* StrokeCapture (part_005:62-216) *)

\* the canvas element: its intrinsic size and its on-screen rectangle
CanvasElem == [width |-> 400, height |-> 200,
               rect |-> [left |-> 1, top |-> 0, width |-> 200, height |-> 100]]

CanvasIds == {"modalCanvas", "sideCanvas"}

PointerEvents == [clientX : 1..(1 + MaxEvCoord), clientY : {0}]

\* _getCanvasPoint: client coordinates to canvas coordinates (timestamp is
\* never stored in a stroke and is left out)
GetCanvasPoint(event) ==
    LET scaleX == CanvasElem.width \div CanvasElem.rect.width
        scaleY == CanvasElem.height \div CanvasElem.rect.height
    IN  [x |-> (event.clientX - CanvasElem.rect.left) * scaleX,
         y |-> (event.clientY - CanvasElem.rect.top) * scaleY]

\* new StrokeCapture(canvas)
NewCapture == [strokes |-> <<>>, currentStroke |-> <<>>,
               isDrawing |-> FALSE, lastPoint |-> <<>>]

\* _onPointerDown
OnPointerDown(cap, event) ==
    LET point == GetCanvasPoint(event)
    IN  [cap EXCEPT !.isDrawing = TRUE,
                    !.currentStroke = <<[x |-> point.x, y |-> point.y, penState |-> 1]>>,
                    !.lastPoint = <<point>>]

\* _onPointerMove without the isDrawing guard
OnPointerMove_Always(cap, event) ==
    LET point == GetCanvasPoint(event)
    IN  [cap EXCEPT !.currentStroke =
                        Append(@, [x |-> point.x, y |-> point.y, penState |-> 1]),
                    !.lastPoint = <<point>>]

\* _onPointerMove
OnPointerMove(cap, event) ==
    IF ~cap.isDrawing THEN cap
    ELSE LET point == GetCanvasPoint(event)
         IN  [cap EXCEPT !.currentStroke =
                             Append(@, [x |-> point.x, y |-> point.y, penState |-> 1]),
                         !.lastPoint = <<point>>]

\* the current stroke with its last point marked pen up
MarkLastUp(stroke) ==
    [i \in 1..Len(stroke) |->
        IF i = Len(stroke) THEN [stroke[i] EXCEPT !.penState = 0] ELSE stroke[i]]

\* _onPointerUp without the pen-up mark on the last point
OnPointerUp_NoMark(cap) ==
    IF ~cap.isDrawing THEN cap
    ELSE [cap EXCEPT !.isDrawing = FALSE,
                     !.strokes = IF Len(cap.currentStroke) > 0
                                 THEN Append(@, cap.currentStroke)
                                 ELSE @,
                     !.currentStroke = <<>>,
                     !.lastPoint = <<>>]

\* _onPointerUp that drops a stroke of a single point
OnPointerUp_DropsTap(cap) ==
    IF ~cap.isDrawing THEN cap
    ELSE [cap EXCEPT !.isDrawing = FALSE,
                     !.strokes = IF Len(cap.currentStroke) > 1
                                 THEN Append(@, MarkLastUp(cap.currentStroke))
                                 ELSE @,
                     !.currentStroke = <<>>,
                     !.lastPoint = <<>>]

\* _onPointerUp
OnPointerUp(cap) ==
    IF ~cap.isDrawing THEN cap
    ELSE [cap EXCEPT !.isDrawing = FALSE,
                     !.strokes = IF Len(cap.currentStroke) > 0
                                 THEN Append(@, MarkLastUp(cap.currentStroke))
                                 ELSE @,
                     !.currentStroke = <<>>,
                     !.lastPoint = <<>>]

\* getStrokes
GetStrokes(cap) == cap.strokes

\* clear that leaves the stroke in progress
ClearCapture_KeepsCurrent(cap) == [cap EXCEPT !.strokes = <<>>]

\* clear
ClearCapture(cap) == [cap EXCEPT !.strokes = <<>>, !.currentStroke = <<>>]

\* hasStrokes
HasStrokes(cap) == Len(cap.strokes) > 0 \/ Len(cap.currentStroke) > 0

CapPoints(cap) == SumLen(cap.strokes) + Len(cap.currentStroke)

RECURSIVE SumCapPoints(_, _)
SumCapPoints(caps, ids) ==
    IF ids = {} THEN 0
    ELSE LET c == CHOOSE c \in ids : TRUE
         IN  CapPoints(caps[c]) + SumCapPoints(caps, ids \ {c})

TotalCapPoints == SumCapPoints(strokeCaptures, DOMAIN strokeCaptures)

----------------------------------------------------------------------------
(* offline_handwriting.js: captures per canvas id *)

\* setupCanvasCapture: create or reuse the capture of canvasId (new
\* StrokeCapture throws a ReferenceError while stroke_processor.js is not loaded)
CapturesAfterSetup(canvasId) ==
    IF canvasId \in DOMAIN strokeCaptures \/ ~modulesLoaded THEN strokeCaptures
    ELSE [c \in DOMAIN strokeCaptures \cup {canvasId} |->
             IF c = canvasId THEN NewCapture ELSE strokeCaptures[c]]

SetupCanvasCapture(canvasId) ==
    /\ microtasks = <<>>
    /\ strokeCaptures' = CapturesAfterSetup(canvasId)

\* clearCanvasStrokes that clears the captures of all canvases
ClearCanvasStrokes_All(canvasId) ==
    /\ microtasks = <<>>
    /\ strokeCaptures' =
          IF canvasId \in DOMAIN strokeCaptures
          THEN [c \in DOMAIN strokeCaptures |-> ClearCapture(strokeCaptures[c])]
          ELSE strokeCaptures

\* clearCanvasStrokes
ClearCanvasStrokes(canvasId) ==
    /\ microtasks = <<>>
    /\ strokeCaptures' =
          IF canvasId \in DOMAIN strokeCaptures
          THEN [strokeCaptures EXCEPT ![canvasId] = ClearCapture(@)]
          ELSE strokeCaptures

\* the listeners of _setupEventListeners, one action per kind of event
PointerDown(canvasId, event) ==
    /\ microtasks = <<>>
    /\ canvasId \in DOMAIN strokeCaptures
    /\ TotalCapPoints < MaxCapPoints
    /\ strokeCaptures' = [strokeCaptures EXCEPT ![canvasId] = OnPointerDown(@, event)]

PointerMove(canvasId, event) ==
    /\ microtasks = <<>>
    /\ canvasId \in DOMAIN strokeCaptures
    /\ TotalCapPoints < MaxCapPoints
    /\ strokeCaptures' = [strokeCaptures EXCEPT ![canvasId] = OnPointerMove(@, event)]

PointerUp(canvasId) ==
    /\ microtasks = <<>>
    /\ canvasId \in DOMAIN strokeCaptures
    /\ strokeCaptures' = [strokeCaptures EXCEPT ![canvasId] = OnPointerUp(@)]

----------------------------------------------------------------------------
(* Initial values of the parts a specification leaves alone *)

CapInit  == strokeCaptures = [c \in {} |-> NewCapture]
OrchInit ==
    /\ recognizer = 0
    /\ isModelLoaded = FALSE
    /\ modelLoadPromise = 0
    /\ modelLoadError = "null"
    /\ promises = <<>>
    /\ inits = <<>>
    /\ calls = <<>>
    /\ microtasks = <<>>
    /\ modulesLoaded = TRUE
ProcIdle ==
    /\ procIn = [strokes |-> <<>>, config |-> [maxSeqLength |-> 1, useDeltaCoordinates |-> TRUE]]
    /\ procOut = <<>>
CtcIdle  == ctcIn = <<>> /\ ctcOut = <<>>
TessInit ==
    /\ worker = 0
    /\ isInitialized = FALSE
    /\ initPromise = "null"
    /\ initPc = "none"
    /\ workerPsm = "default"
    /\ createCount = 0
    /\ jobs = <<>>
    /\ tessInits = 0
    /\ tessCalls = <<>>
OcrIdle  == ocrIn = <<>> /\ ocrOut = <<>>
CropIdle == cropIn = <<>> /\ cropOut = <<>>
LocIdle  ==
    /\ locationData = <<>>
    /\ locationDataPromise = 0
    /\ locLoads = <<>>
    /\ locEnsures = <<>>
\* the address groups of a form: the prefixes of its province, district and
\* municipality field ids
AddressGroups == {"permanent_", "temporary_"}
NoSelect == [g \in AddressGroups |-> [options |-> <<>>, value |-> ""]]
DropIdle ==
    /\ provinceSelect = NoSelect
    /\ districtSelect = NoSelect
    /\ municipalitySelect = NoSelect
DocIdle  ==
    /\ selectedDocument = "null"
    /\ selectedInputMethod = "null"
    /\ formData = "empty"
    /\ windowFormData = "undefined"
    /\ selectCalls = <<>>
    /\ formFields = "none"
    /\ pdfRequests = <<>>
    /\ loadingHidden = TRUE
    /\ startedNew = FALSE
SubmitIdle == submitCalls = <<>> /\ fieldValue = ""
AppIdle  == LocIdle /\ DropIdle /\ DocIdle /\ SubmitIdle

----------------------------------------------------------------------------
(* SpecCapture: the captures alone, driven by pointer events *)

CapSetup == \E c \in CanvasIds : SetupCanvasCapture(c) /\ UNCHANGED <<orchVars, procVars, ctcVars, tessVars, ocrVars, cropVars, appVars>>
CapClear == \E c \in CanvasIds : ClearCanvasStrokes(c) /\ UNCHANGED <<orchVars, procVars, ctcVars, tessVars, ocrVars, cropVars, appVars>>
CapDown  == \E c \in CanvasIds, e \in PointerEvents :
               PointerDown(c, e) /\ UNCHANGED <<orchVars, procVars, ctcVars, tessVars, ocrVars, cropVars, appVars>>
CapMove  == \E c \in CanvasIds, e \in PointerEvents :
               PointerMove(c, e) /\ UNCHANGED <<orchVars, procVars, ctcVars, tessVars, ocrVars, cropVars, appVars>>
CapUp    == \E c \in CanvasIds : PointerUp(c) /\ UNCHANGED <<orchVars, procVars, ctcVars, tessVars, ocrVars, cropVars, appVars>>

InitCapture == CapInit /\ OrchInit /\ ProcIdle /\ CtcIdle /\ TessInit /\ OcrIdle /\ CropIdle /\ AppIdle
NextCapture == CapSetup \/ CapClear \/ CapDown \/ CapMove \/ CapUp
SpecCapture == InitCapture /\ [][NextCapture]_vars

----------------------------------------------------------------------------
(* C7 *)

AllCaptures == {strokeCaptures[c] : c \in DOMAIN strokeCaptures}
AllStrokes  == UNION {{cap.strokes[i] : i \in 1..Len(cap.strokes)} : cap \in AllCaptures}

\* C7 as claimed: every stroke of every StrokeSet is non-empty, starts with a
\* pen-down point (penState 1) and ends with a pen-up point (penState 0).
C7_AsClaimed ==
    \A s \in AllStrokes :
        /\ Len(s) >= 1
        /\ s[1].penState = 1
        /\ s[Len(s)].penState = 0

\* C7 (amended): every stroke of every StrokeSet is non-empty, its last point
\* is pen up (0) and every earlier point is pen down (1), so the first point is
\* pen down exactly when the stroke has two or more points; and a pointer-up
\* during an active stroke appends the marked current stroke and resets the
\* active-stroke state.
C7_StrokeShape ==
    \A s \in AllStrokes :
        /\ Len(s) >= 1
        /\ s[Len(s)].penState = 0
        /\ \A i \in 1..(Len(s) - 1) : s[i].penState = 1

C7_UpEffect ==
    \A c \in DOMAIN strokeCaptures :
        LET cap == strokeCaptures[c]
            up  == OnPointerUp(cap)
        IN  (cap.isDrawing /\ Len(cap.currentStroke) > 0) =>
               /\ Len(up.strokes) = Len(cap.strokes) + 1
               /\ SubSeq(up.strokes, 1, Len(cap.strokes)) = cap.strokes
               /\ LET s == up.strokes[Len(up.strokes)]
                  IN  /\ Len(s) = Len(cap.currentStroke)
                      /\ s[Len(s)].penState = 0
                      /\ \A i \in 1..Len(s) :
                            s[i].x = cap.currentStroke[i].x /\ s[i].y = cap.currentStroke[i].y
               /\ ~up.isDrawing /\ up.currentStroke = <<>> /\ up.lastPoint = <<>>

C7_Amended == C7_StrokeShape /\ C7_UpEffect

\* a one-point stroke and a longer stroke have both been completed
C7_Witness ==
    \E s, t \in AllStrokes : Len(s) = 1 /\ Len(t) >= 2

----------------------------------------------------------------------------
(* C15 *)

\* C15: in every state a capture can be in, idle or in the middle of a stroke,
\* clear() leaves no strokes and no current-stroke points, so that right after
\* it getStrokes() is empty and hasStrokes() is false; and hasStrokes() is true
\* exactly when the capture holds a completed stroke or is drawing a stroke
\* with at least one point.
C15_ClearEmpties ==
    \A cap \in AllCaptures :
        /\ GetStrokes(ClearCapture(cap)) = <<>>
        /\ ~HasStrokes(ClearCapture(cap))
        /\ CapPoints(ClearCapture(cap)) = 0
        /\ HasStrokes(cap) <=>
              (Len(cap.strokes) > 0 \/ (cap.isDrawing /\ Len(cap.currentStroke) > 0))

\* a capture was cleared in the middle of a stroke (it is drawing and holds no
\* point), next to a capture that holds a completed stroke and a stroke in progress
C15_Witness ==
    /\ \E cap \in AllCaptures :
          cap.isDrawing /\ cap.currentStroke = <<>> /\ cap.strokes = <<>>
    /\ \E cap \in AllCaptures :
          cap.isDrawing /\ Len(cap.currentStroke) > 0 /\ Len(cap.strokes) > 0

----------------------------------------------------------------------------
(* C16 *)

\* C16: a pointer-move on a capture that is not drawing (before any
\* pointer-down, after a pointer-up) changes nothing of the capture; on a
\* capture that is drawing it appends exactly one point, pen down and at the
\* canvas position of the event, to the current stroke, and leaves the
\* completed strokes and the drawing flag as they are.
C16_MoveOnlyWhileDrawing ==
    \A cap \in AllCaptures, e \in PointerEvents :
        LET moved == OnPointerMove(cap, e)
            point == GetCanvasPoint(e)
        IN  /\ ~cap.isDrawing => moved = cap
            /\ ~cap.isDrawing => cap.currentStroke = <<>>
            /\ cap.isDrawing =>
                  /\ moved.currentStroke =
                        Append(cap.currentStroke, [x |-> point.x, y |-> point.y, penState |-> 1])
                  /\ moved.strokes = cap.strokes
                  /\ moved.isDrawing
                  /\ cap.lastPoint # <<>>

\* a capture holds a completed stroke and is not drawing (a pointer-up has been
\* handled), and a capture holds a current stroke that moves have extended
C16_Witness ==
    /\ \E cap \in AllCaptures : ~cap.isDrawing /\ Len(cap.strokes) > 0
    /\ \E cap \in AllCaptures : cap.isDrawing /\ Len(cap.currentStroke) >= 3

----------------------------------------------------------------------------
(* C17 *)

\* C17: a pointer-down followed at once by a pointer-up, with no move between
\* them, appends a stroke of exactly one point (the point of the pointer-down)
\* to the completed strokes, whatever the capture held before: the StrokeSet
\* grows by one stroke, the earlier strokes are kept, and hasStrokes() is true.
C17_TapRecorded ==
    \A cap \in AllCaptures, e \in PointerEvents :
        LET tap   == OnPointerUp(OnPointerDown(cap, e))
            point == GetCanvasPoint(e)
            n     == Len(GetStrokes(cap))
        IN  /\ Len(GetStrokes(tap)) = n + 1
            /\ SubSeq(GetStrokes(tap), 1, n) = GetStrokes(cap)
            /\ Len(GetStrokes(tap)[n + 1]) = 1
            /\ GetStrokes(tap)[n + 1][1].x = point.x
            /\ GetStrokes(tap)[n + 1][1].y = point.y
            /\ HasStrokes(tap)
            /\ ~tap.isDrawing

\* a capture whose latest completed stroke is a single point, next to an
\* earlier stroke, with no stroke in progress
C17_Witness ==
    \E cap \in AllCaptures :
        /\ ~cap.isDrawing
        /\ cap.currentStroke = <<>>
        /\ Len(cap.strokes) >= 2
        /\ Len(cap.strokes[Len(cap.strokes)]) = 1
        /\ HasStrokes(cap)

----------------------------------------------------------------------------
(* Rationals <<num, den>>, den > 0 *)

Abs(n) == IF n < 0 THEN -n ELSE n

RECURSIVE Gcd(_, _)
Gcd(a, b) == IF b = 0 THEN a ELSE Gcd(b, a % b)

Rat(n, d)    == LET g == Gcd(Abs(n), d) IN IF g = 0 THEN <<0, 1>> ELSE <<n \div g, d \div g>>
RatZero      == <<0, 1>>
RatSub(a, b) == Rat(a[1] * b[2] - b[1] * a[2], a[2] * b[2])
RatEq(a, b)  == a[1] * b[2] = b[1] * a[2]
RatLeq(a, b) == a[1] * b[2] <= b[1] * a[2]

\* the least power of two p with |n| * p >= 2^23 * d, for 0 < |n| / d < 2^23
RECURSIVE F32Scale(_, _, _)
F32Scale(n, d, p) == IF n * p >= 8388608 * d THEN p ELSE F32Scale(n, d, 2 * p)

\* a Float32Array element: the value rounded to a 24-bit significand
F32(v) ==
    IF v[1] = 0 THEN RatZero
    ELSE LET r == Rat(v[1], v[2])
             n == Abs(r[1])
             p == F32Scale(n, r[2], 1)
             m == (2 * n * p + r[2]) \div (2 * r[2])
         IN  Rat((IF r[1] < 0 THEN -m ELSE m), p)

\* floor of the square root
RECURSIVE ISqrtBetween(_, _, _)
ISqrtBetween(n, lo, hi) ==
    IF lo >= hi THEN lo
    ELSE LET mid == (lo + hi + 1) \div 2
         IN  IF mid * mid <= n THEN ISqrtBetween(n, mid, hi)
             ELSE ISqrtBetween(n, lo, mid - 1)
ISqrt(n) == ISqrtBetween(n, 0, Min(n, 46340))

----------------------------------------------------------------------------
(* StrokeProcessor (part_005:221-429) *)

\* DEFAULT_CONFIG.resampleDistance, in coordinate units
resampleDistance == 3

\* _flattenStrokes
RECURSIVE FlattenStrokes(_)
FlattenStrokes(strokes) ==
    IF strokes = <<>> THEN <<>>
    ELSE [i \in 1..Len(Head(strokes)) |->
             [x |-> Head(strokes)[i].x, y |-> Head(strokes)[i].y,
              penState |-> Head(strokes)[i].penState]]
         \o FlattenStrokes(Tail(strokes))

\* Math.sqrt of the squared distances two input points can have, in units of
\* 1 / (CoordDen * DistScale)
SqrtTable ==
    [d2 \in 0..(25 * CoordDen * CoordDen) |-> ISqrt(d2 * DistScale * DistScale)]

\* Math.sqrt(dx * dx + dy * dy)
PointDist(p, q) ==
    LET dx == p.x - q.x
        dy == p.y - q.y
    IN  SqrtTable[dx * dx + dy * dy]

\* the loop of _resamplePoints from index i on
RECURSIVE ResampleLoop(_, _, _, _)
ResampleLoop(points, i, resampled, accumulatedDist) ==
    IF i > Len(points) THEN resampled
    ELSE LET acc == accumulatedDist + PointDist(points[i], points[i - 1])
         IN  IF points[i].penState = 0 /\ points[i - 1].penState = 1
             THEN ResampleLoop(points, i + 1, Append(resampled, points[i]), 0)
             ELSE IF acc >= resampleDistance * CoordDen * DistScale
             THEN ResampleLoop(points, i + 1, Append(resampled, points[i]), 0)
             ELSE ResampleLoop(points, i + 1, resampled, acc)

\* _resamplePoints
ResamplePoints(points) ==
    IF Len(points) < 2 THEN points
    ELSE LET resampled == ResampleLoop(points, 2, <<points[1]>>, 0)
             last == points[Len(points)]
             resampledLast == resampled[Len(resampled)]
         IN  IF last.x # resampledLast.x \/ last.y # resampledLast.y
             THEN Append(resampled, last)
             ELSE resampled

SeqMin(f, n) == CHOOSE v \in {f[i] : i \in 1..n} : \A i \in 1..n : v <= f[i]
SeqMax(f, n) == CHOOSE v \in {f[i] : i \in 1..n} : \A i \in 1..n : v >= f[i]

\* _normalizeCoordinates with x scaled by the y range
NormalizeCoordinates_WrongAxis(points) ==
    IF Len(points) = 0 THEN points
    ELSE LET n  == Len(points)
             xs == [i \in 1..n |-> points[i].x]
             ys == [i \in 1..n |-> points[i].y]
             xMin == SeqMin(xs, n)
             yMin == SeqMin(ys, n)
             yMax == SeqMax(ys, n)
             yRange == Max(yMax - yMin, CoordDen)
         IN  [i \in 1..n |->
                 [x |-> Rat(2 * (points[i].x - xMin) - yRange, yRange),
                  y |-> Rat(2 * (points[i].y - yMin) - yRange, yRange),
                  penState |-> points[i].penState]]

\* _normalizeCoordinates that replaces only a range of zero, by the least unit
NormalizeCoordinates_ZeroOnly(points) ==
    IF Len(points) = 0 THEN points
    ELSE LET n  == Len(points)
             xs == [i \in 1..n |-> points[i].x]
             ys == [i \in 1..n |-> points[i].y]
             xMin == SeqMin(xs, n)
             xMax == SeqMax(xs, n)
             yMin == SeqMin(ys, n)
             yMax == SeqMax(ys, n)
             xRange == Max(xMax - xMin, 1)
             yRange == Max(yMax - yMin, 1)
         IN  [i \in 1..n |->
                 [x |-> Rat(2 * (points[i].x - xMin) - xRange, xRange),
                  y |-> Rat(2 * (points[i].y - yMin) - yRange, yRange),
                  penState |-> points[i].penState]]

\* _normalizeCoordinates: 2 * (v - min) / max(range, 1) - 1 on each axis
NormalizeCoordinates(points) ==
    IF Len(points) = 0 THEN points
    ELSE LET n  == Len(points)
             xs == [i \in 1..n |-> points[i].x]
             ys == [i \in 1..n |-> points[i].y]
             xMin == SeqMin(xs, n)
             xMax == SeqMax(xs, n)
             yMin == SeqMin(ys, n)
             yMax == SeqMax(ys, n)
             xRange == Max(xMax - xMin, CoordDen)
             yRange == Max(yMax - yMin, CoordDen)
         IN  [i \in 1..n |->
                 [x |-> Rat(2 * (points[i].x - xMin) - xRange, xRange),
                  y |-> Rat(2 * (points[i].y - yMin) - yRange, yRange),
                  penState |-> points[i].penState]]

\* _toDeltaCoordinates with every difference taken from the first point
ToDeltaCoordinates_FromFirst(points) ==
    [i \in 1..Len(points) |->
        [x |-> RatSub(points[i].x, points[1].x),
         y |-> RatSub(points[i].y, points[1].y),
         penState |-> points[i].penState]]

\* _toDeltaCoordinates
ToDeltaCoordinates(points) ==
    IF Len(points) < 2
    THEN [i \in 1..Len(points) |->
             [x |-> RatZero, y |-> RatZero, penState |-> points[i].penState]]
    ELSE [i \in 1..Len(points) |->
             IF i = 1
             THEN [x |-> RatZero, y |-> RatZero, penState |-> points[1].penState]
             ELSE [x |-> RatSub(points[i].x, points[i - 1].x),
                   y |-> RatSub(points[i].y, points[i - 1].y),
                   penState |-> points[i].penState]]

ZeroFrame == [x |-> RatZero, y |-> RatZero, penState |-> 0]

\* _padSequence that pads but never truncates
PadSequence_NoTruncate(points, maxLen) ==
    IF Len(points) >= maxLen THEN points
    ELSE [i \in 1..maxLen |-> IF i <= Len(points) THEN points[i] ELSE ZeroFrame]

\* _padSequence
PadSequence(points, maxLen) ==
    IF Len(points) >= maxLen THEN SubSeq(points, 1, maxLen)
    ELSE [i \in 1..maxLen |-> IF i <= Len(points) THEN points[i] ELSE ZeroFrame]

\* _toFloat32Array: three elements per frame
ToFloat32Array(points) ==
    [j \in 1..(3 * Len(points)) |->
        LET p == points[(j + 2) \div 3]
        IN  CASE j % 3 = 1 -> F32(p.x)
              [] j % 3 = 2 -> F32(p.y)
              [] OTHER     -> F32(<<p.penState, 1>>)]

\* the stages of process(strokes) for a non-empty strokes array
ProcessStages(strokes, config) ==
    LET flat       == FlattenStrokes(strokes)
        resampled  == ResamplePoints(flat)
        normalized == NormalizeCoordinates(resampled)
        encoded    == IF config.useDeltaCoordinates
                      THEN ToDeltaCoordinates(normalized) ELSE normalized
        padded     == PadSequence(encoded, config.maxSeqLength)
    IN  [flat |-> flat, resampled |-> resampled, normalized |-> normalized,
         encoded |-> encoded, padded |-> padded, out |-> ToFloat32Array(padded)]

\* process(strokes) that answers with zeros once a result has been returned
Process_Spent(strokes, config) ==
    IF Len(strokes) = 0 \/ procOut # <<>>
    THEN [flat |-> <<>>, resampled |-> <<>>, normalized |-> <<>>, encoded |-> <<>>,
          padded |-> <<>>, out |-> [j \in 1..(3 * config.maxSeqLength) |-> RatZero]]
    ELSE ProcessStages(strokes, config)

\* process(strokes)
Process(strokes, config) ==
    IF Len(strokes) = 0
    THEN [flat |-> <<>>, resampled |-> <<>>, normalized |-> <<>>, encoded |-> <<>>,
          padded |-> <<>>, out |-> [j \in 1..(3 * config.maxSeqLength) |-> RatZero]]
    ELSE ProcessStages(strokes, config)

\* getSequenceLength(strokes)
GetSequenceLength(strokes, config) ==
    IF Len(strokes) = 0 THEN 0
    ELSE Min(Len(ResamplePoints(FlattenStrokes(strokes))), config.maxSeqLength)

----------------------------------------------------------------------------
(* SpecProc: process() applied to bounded stroke sets *)

\* the coordinates a point of an input stroke may have, in units of 1/CoordDen
ProcXY == {<<0, 0>>, <<1, 2 * CoordDen>>, <<3 * CoordDen, 2 * CoordDen>>}
ProcPoints == {[x |-> xy[1], y |-> xy[2], penState |-> ps] : xy \in ProcXY, ps \in {0, 1}}

\* the ways to cut a list of n points into k strokes (a stroke may be empty)
Cuts(n, k) ==
    {c \in [0..k -> 0..n] :
        c[0] = 0 /\ c[k] = n /\ \A i \in 1..k : c[i - 1] <= c[i]}

SplitAt(flat, c, k) == [i \in 1..k |-> SubSeq(flat, c[i - 1] + 1, c[i])]

ProcConfigs == [maxSeqLength : 1..MaxSeqLen, useDeltaCoordinates : BOOLEAN]

\* every stroke set of at most MaxProcStrokes strokes and MaxProcPoints points
InitProc ==
    /\ CapInit /\ OrchInit /\ CtcIdle /\ TessInit /\ OcrIdle /\ CropIdle /\ AppIdle
    /\ \E n \in 0..MaxProcPoints, k \in 0..MaxProcStrokes :
          /\ (k = 0 => n = 0)
          /\ \E flat \in [1..n -> ProcPoints], c \in Cuts(n, k), config \in ProcConfigs :
                procIn = [strokes |-> SplitAt(flat, c, k), config |-> config]
    /\ procOut = <<>>

ProcessCall ==
    /\ procOut = <<>>
    /\ procOut' = <<Process(procIn.strokes, procIn.config)>>
    /\ UNCHANGED <<procIn, capVars, orchVars, ctcVars, tessVars, ocrVars, cropVars, appVars>>

GetSequenceLengthCall ==
    /\ procOut = <<>>
    /\ procOut' = <<[len |-> GetSequenceLength(procIn.strokes, procIn.config)]>>
    /\ UNCHANGED <<procIn, capVars, orchVars, ctcVars, tessVars, ocrVars, cropVars, appVars>>

NextProc == ProcessCall \/ GetSequenceLengthCall
SpecProc == InitProc /\ [][NextProc]_vars

----------------------------------------------------------------------------
(* SpecDet: process() called repeatedly on the strokes array of a capture that
   keeps receiving pointer events.  procIn holds the configuration of the
   StrokeProcessor and the argument of its latest call, procOut the calls made:
   the argument, the tensor returned and whether the capture was drawing. *)

DetCanvas == "modalCanvas"

\* the pointer events of the run: two positions one unit apart
DetEvents == {e \in PointerEvents : e.clientX <= 2}

\* the configurations of the processor: both encodings, two frames
DetConfigs == {c \in ProcConfigs : c.maxSeqLength = 2}

DetSetup == SetupCanvasCapture(DetCanvas) /\ UNCHANGED <<orchVars, procVars, ctcVars, tessVars, ocrVars, cropVars, appVars>>
DetDown  == \E e \in DetEvents :
                /\ TotalCapPoints < MaxDetPoints
                /\ PointerDown(DetCanvas, e)
                /\ UNCHANGED <<orchVars, procVars, ctcVars, tessVars, ocrVars, cropVars, appVars>>
DetMove  == \E e \in DetEvents :
                /\ TotalCapPoints < MaxDetPoints
                /\ PointerMove(DetCanvas, e)
                /\ UNCHANGED <<orchVars, procVars, ctcVars, tessVars, ocrVars, cropVars, appVars>>
DetUp    == PointerUp(DetCanvas) /\ UNCHANGED <<orchVars, procVars, ctcVars, tessVars, ocrVars, cropVars, appVars>>

\* processor.process(capture.getStrokes()): getStrokes hands out the strokes
\* array itself, and no statement of process or of its stages assigns to the
\* array, to a stroke or to a point (_flattenStrokes copies every point)
DetProcess ==
    /\ Len(procOut) < MaxDetCalls
    /\ DetCanvas \in DOMAIN strokeCaptures
    /\ LET cap == strokeCaptures[DetCanvas]
           s   == GetStrokes(cap)
       IN  /\ procIn' = [procIn EXCEPT !.strokes = s]
           /\ procOut' = Append(procOut, [in |-> s,
                                          out |-> Process(s, procIn.config).out,
                                          drawing |-> cap.isDrawing])
    /\ UNCHANGED <<capVars, orchVars, ctcVars, tessVars, ocrVars, cropVars, appVars>>

InitDet ==
    /\ CapInit /\ OrchInit /\ CtcIdle /\ TessInit /\ OcrIdle /\ CropIdle /\ AppIdle
    /\ \E config \in DetConfigs : procIn = [strokes |-> <<>>, config |-> config]
    /\ procOut = <<>>

NextDet == DetSetup \/ DetDown \/ DetMove \/ DetUp \/ DetProcess
SpecDet == InitDet /\ [][NextDet]_vars

----------------------------------------------------------------------------
(* C20 *)

\* calls of process() with the same strokes returned the same tensor
SameInSameOut ==
    \A i, j \in 1..Len(procOut) :
        procOut[i].in = procOut[j].in => procOut[i].out = procOut[j].out

\* a call of process() leaves the strokes it was given, and the whole capture,
\* as they were
ProcessKeepsStrokes ==
    procOut' # procOut =>
        /\ strokeCaptures' = strokeCaptures
        /\ procOut'[Len(procOut')].in = GetStrokes(strokeCaptures'[DetCanvas])

----------------------------------------------------------------------------
(* C1, C8, C9: the stages of process() *)

Processed == procOut # <<>> /\ "out" \in DOMAIN procOut[1]

\* frame i of a Float32Array of three elements per frame
OutFrame(out, i) == <<out[3 * i - 2], out[3 * i - 1], out[3 * i]>>
F32Frame(f) == <<F32(f.x), F32(f.y), F32(<<f.penState, 1>>)>>

\* C1: process() returns exactly maxSeqLength frames of 3 values; the first
\* min(n, maxSeqLength) frames are the first frames of the n-frame encoded
\* sequence, in order, and every later frame is the zero frame.
C1_PadTruncate ==
    Processed =>
        LET r == procOut[1]
            L == procIn.config.maxSeqLength
            n == Len(r.encoded)
        IN  /\ Len(r.out) = 3 * L
            /\ \A i \in 1..L :
                  OutFrame(r.out, i) =
                      IF i <= n THEN F32Frame(r.encoded[i])
                      ELSE <<RatZero, RatZero, RatZero>>

\* a stroke set with an empty stroke whose encoded sequence is longer than
\* maxSeqLength has been processed
C1_Witness ==
    /\ Processed
    /\ Len(procOut[1].encoded) > procIn.config.maxSeqLength
    /\ \E i \in 1..Len(procIn.strokes) : procIn.strokes[i] = <<>>

\* the indices of a point list that C8 says are kept: the first point, every
\* stroke-boundary point, every point at which the path length since the last
\* kept point reaches resampleDistance, and the final point
RECURSIVE ClaimedKept(_, _, _)
ClaimedKept(points, i, acc) ==
    IF i > Len(points) THEN {}
    ELSE LET a == acc + PointDist(points[i], points[i - 1])
             keep == \/ points[i].penState = 0 /\ points[i - 1].penState = 1
                     \/ a >= resampleDistance * CoordDen * DistScale
                     \/ i = Len(points)
         IN  (IF keep THEN {i} ELSE {}) \cup ClaimedKept(points, i + 1, IF keep THEN 0 ELSE a)

RECURSIVE IsSubseq(_, _)
IsSubseq(s, t) ==
    IF s = <<>> THEN TRUE
    ELSE IF t = <<>> THEN FALSE
    ELSE IF Head(s) = Head(t) THEN IsSubseq(Tail(s), Tail(t))
    ELSE IsSubseq(s, Tail(t))

SeqRange(s) == {s[i] : i \in 1..Len(s)}

\* C8 as claimed: for a point list with at least one point, resampling keeps
\* the first point, every boundary point, every point reaching the distance
\* threshold and always the final point, and the kept points are in input order.
C8_AsClaimed ==
    (Processed /\ Len(procOut[1].flat) >= 1) =>
        LET flat == procOut[1].flat
            kept == procOut[1].resampled
        IN  /\ kept[1] = flat[1]
            /\ \A i \in ClaimedKept(flat, 2, 0) : flat[i] \in SeqRange(kept)
            /\ kept[Len(kept)] = flat[Len(flat)]
            /\ IsSubseq(kept, flat)

\* the values of one axis of a point list, and the extent of the axis
AxisValues(points, axis) == {IF axis = "x" THEN points[i].x ELSE points[i].y : i \in 1..Len(points)}
AxisMin(points, axis) == CHOOSE v \in AxisValues(points, axis) : \A w \in AxisValues(points, axis) : v <= w
AxisMax(points, axis) == CHOOSE v \in AxisValues(points, axis) : \A w \in AxisValues(points, axis) : v >= w
AxisExtent(points, axis) == AxisMax(points, axis) - AxisMin(points, axis)
AxisOf(p, axis) == IF axis = "x" THEN p.x ELSE p.y

\* the divisor is the extent of the axis, or 1 when the extent is below 1, and
\* is never zero
C18_RangeGuard ==
    (Processed /\ Len(procOut[1].resampled) >= 1) =>
        LET r == procOut[1]
        IN  \A axis \in {"x", "y"} :
               LET extent  == AxisExtent(r.resampled, axis)
                   divisor == IF extent < CoordDen THEN CoordDen ELSE extent
               IN  /\ divisor > 0
                   /\ \A i \in 1..Len(r.normalized) :
                         /\ AxisOf(r.normalized[i], axis)[2] > 0
                         /\ AxisOf(r.normalized[i], axis) =
                               Rat(2 * (AxisOf(r.resampled[i], axis)
                                          - AxisMin(r.resampled, axis)) - divisor, divisor)

\* C18 as claimed: normalization treats an axis range below 1 as 1 and never
\* divides by zero, and for a point list of zero extent on an axis (a single
\* point included) every normalized coordinate on that axis is zero.
C18_AsClaimed ==
    /\ C18_RangeGuard
    /\ (Processed /\ Len(procOut[1].resampled) >= 1) =>
          \A axis \in {"x", "y"} :
             AxisExtent(procOut[1].resampled, axis) = 0 =>
                \A i \in 1..Len(procOut[1].normalized) :
                   AxisOf(procOut[1].normalized[i], axis) = RatZero

\* C18 (amended): normalization treats an axis range below 1 as 1 and never
\* divides by zero; for a point list of zero extent on an axis (a single point
\* included) every normalized coordinate on that axis is -1, and it is the
\* delta-encoded sequence that is zero on that axis.
C18_Amended ==
    /\ C18_RangeGuard
    /\ (Processed /\ Len(procOut[1].resampled) >= 1) =>
          \A axis \in {"x", "y"} :
             AxisExtent(procOut[1].resampled, axis) = 0 =>
                /\ \A i \in 1..Len(procOut[1].normalized) :
                      AxisOf(procOut[1].normalized[i], axis) = <<-1, 1>>
                /\ procIn.config.useDeltaCoordinates =>
                      \A i \in 1..Len(procOut[1].encoded) :
                         AxisOf(procOut[1].encoded[i], axis) = RatZero

\* a point list of two or more kept points with no extent on the y axis has
\* been normalized and delta-encoded
C18_Witness ==
    /\ Processed
    /\ procIn.config.useDeltaCoordinates
    /\ Len(procOut[1].resampled) >= 2
    /\ AxisExtent(procOut[1].resampled, "y") = 0
    /\ AxisExtent(procOut[1].resampled, "x") > 0

RatAdd(a, b) == Rat(a[1] * b[2] + b[1] * a[2], a[2] * b[2])

\* C19: delta-encoding n >= 1 normalized points yields n frames in the order
\* of the points; frame 1 has (dx, dy) = (0, 0); every later frame holds the
\* difference between its point and the point before it (adding the frame to
\* the earlier point gives the point back); and every frame has the penState
\* of its point.
C19_DeltaLaw ==
    (Processed /\ procIn.config.useDeltaCoordinates /\ Len(procOut[1].normalized) >= 1) =>
        LET pts    == procOut[1].normalized
            frames == procOut[1].encoded
        IN  /\ Len(frames) = Len(pts)
            /\ frames[1].x = RatZero /\ frames[1].y = RatZero
            /\ \A i \in 2..Len(pts) :
                  /\ RatEq(frames[i].x, RatSub(pts[i].x, pts[i - 1].x))
                  /\ RatEq(frames[i].y, RatSub(pts[i].y, pts[i - 1].y))
                  /\ RatEq(RatAdd(pts[i - 1].x, frames[i].x), pts[i].x)
                  /\ RatEq(RatAdd(pts[i - 1].y, frames[i].y), pts[i].y)
            /\ \A i \in 1..Len(pts) : frames[i].penState = pts[i].penState

\* three normalized points with distinct neighbours and both pen states have
\* been delta-encoded
C19_Witness ==
    /\ Processed
    /\ procIn.config.useDeltaCoordinates
    /\ Len(procOut[1].encoded) >= 3
    /\ \A i \in 2..3 : ~RatEq(procOut[1].encoded[i].x, RatZero)
    /\ \E i, j \in 1..3 : procOut[1].encoded[i].penState # procOut[1].encoded[j].penState

\* C9: every coordinate produced by normalization lies within [-1, 1].
C9_NormalizedInRange ==
    Processed =>
        \A i \in 1..Len(procOut[1].normalized) :
            LET p == procOut[1].normalized[i]
            IN  /\ RatLeq(<<-1, 1>>, p.x) /\ RatLeq(p.x, <<1, 1>>)
                /\ RatLeq(<<-1, 1>>, p.y) /\ RatLeq(p.y, <<1, 1>>)

\* kept points whose x extent is positive and below one unit and whose y extent
\* is above one unit have been normalized
C9_Witness ==
    /\ Processed
    /\ LET k == procOut[1].resampled
       IN  /\ Len(k) >= 2
           /\ \A i, j \in 1..Len(k) : Abs(k[i].x - k[j].x) < CoordDen
           /\ \E i, j \in 1..Len(k) : k[i].x # k[j].x /\ Abs(k[i].y - k[j].y) > CoordDen

----------------------------------------------------------------------------
(* CTCDecoder, greedy decoding (section 4.4 of the specification) *)

\* the label alphabet: index 1 is the blank token, 2 is KA, 3 is KHA
Alphabet == <<"blank", "KA", "KHA">>
BlankIndex == 1

\* rows of a probability matrix, in tenths
ProbRows == {<<8, 1, 1>>, <<1, 8, 1>>, <<1, 1, 8>>, <<2, 5, 3>>}

\* the arg-max label of one timestep
ArgMax(row) == CHOOSE k \in 1..Len(row) : \A j \in 1..Len(row) : row[j] <= row[k]

\* collapse consecutive repeats of the same label into one
RECURSIVE CollapseRepeats(_)
CollapseRepeats(labels) ==
    IF Len(labels) < 2 THEN labels
    ELSE IF labels[1] = labels[2] THEN CollapseRepeats(Tail(labels))
    ELSE <<labels[1]>> \o CollapseRepeats(Tail(labels))

\* drop all blank-token emissions
RECURSIVE DropBlanks(_)
DropBlanks(labels) ==
    IF labels = <<>> THEN <<>>
    ELSE IF Head(labels) = BlankIndex THEN DropBlanks(Tail(labels))
    ELSE <<Head(labels)>> \o DropBlanks(Tail(labels))

\* greedy decoding that drops the blanks before it collapses the repeats
GreedyDecode_DropFirst(matrix) ==
    LET labels == [t \in 1..Len(matrix) |-> ArgMax(matrix[t])]
        kept   == CollapseRepeats(DropBlanks(labels))
    IN  [labels |-> labels, text |-> [i \in 1..Len(kept) |-> Alphabet[kept[i]]]]

\* greedy decoding: arg-max per timestep, collapse repeats, drop blanks
GreedyDecode(matrix) ==
    LET labels == [t \in 1..Len(matrix) |-> ArgMax(matrix[t])]
        kept   == DropBlanks(CollapseRepeats(labels))
    IN  [labels |-> labels, text |-> [i \in 1..Len(kept) |-> Alphabet[kept[i]]]]

InitCTC ==
    /\ CapInit /\ OrchInit /\ ProcIdle /\ TessInit /\ OcrIdle /\ CropIdle /\ AppIdle
    /\ \E n \in 0..MaxT : ctcIn \in [1..n -> ProbRows]
    /\ ctcOut = <<>>

GreedyDecodeCall ==
    /\ ctcOut = <<>>
    /\ ctcOut' = <<GreedyDecode(ctcIn)>>
    /\ UNCHANGED <<ctcIn, capVars, orchVars, procVars, tessVars, ocrVars, cropVars, appVars>>

NextCTC == GreedyDecodeCall
SpecCTC == InitCTC /\ [][NextCTC]_vars

----------------------------------------------------------------------------
(* C10 *)

\* timestep t starts a new character: its label is not blank and differs from
\* the label of the timestep before it
Emits(labels, t) ==
    labels[t] # BlankIndex /\ (t = 1 \/ labels[t - 1] # labels[t])

\* the characters of the emitting timesteps, in order
RECURSIVE EmittedFrom(_, _)
EmittedFrom(labels, t) ==
    IF t > Len(labels) THEN <<>>
    ELSE (IF Emits(labels, t) THEN <<Alphabet[labels[t]]>> ELSE <<>>)
         \o EmittedFrom(labels, t + 1)

\* C10: greedy decoding outputs one character per run of equal non-blank
\* arg-max labels and none for blanks, so two equal labels give two characters
\* exactly when they are in different runs (a blank, or another label, lies
\* between them): KA, blank, KA decodes to KA KA and KA, KA, blank to KA.
C10_CollapseLaw ==
    ctcOut # <<>> =>
        LET labels == [t \in 1..Len(ctcIn) |-> ArgMax(ctcIn[t])]
            text   == ctcOut[1].text
        IN  /\ text = EmittedFrom(labels, 1)
            /\ labels = <<2, 1, 2>> => text = <<"KA", "KA">>
            /\ labels = <<2, 2, 1>> => text = <<"KA">>
            /\ \A t, u \in 1..Len(labels) :
                  (/\ t < u
                   /\ labels[t] # BlankIndex
                   /\ labels[u] = labels[t]
                   /\ \A v \in (t + 1)..(u - 1) : labels[v] \in {labels[t], BlankIndex}) =>
                      ((\E v \in (t + 1)..u : Emits(labels, v)) <=>
                       (\E v \in (t + 1)..(u - 1) : labels[v] = BlankIndex))

\* a matrix emitting KA, blank, KA has been decoded
C10_Witness ==
    /\ ctcOut # <<>>
    /\ \E t \in 1..(Len(ctcIn) - 2) :
          ArgMax(ctcIn[t]) = 2 /\ ArgMax(ctcIn[t + 1]) = BlankIndex /\ ArgMax(ctcIn[t + 2]) = 2

----------------------------------------------------------------------------
(* offline_handwriting.js: model load and recognizeOffline *)

\* the canvases recognizeOffline is called for, and the pointer events on them
OrchCanvases == {"modalCanvas"}
OrchEvents == {[clientX |-> 1, clientY |-> 0]}

IsPending(p) == promises[p].state = "pending"
AnyRejected  == \E p \in 1..Len(promises) : promises[p].state = "rejected"

\* isOfflineAvailable
IsOfflineAvailable == isModelLoaded /\ recognizer # 0

\* the try block of initOfflineHandwriting up to its await, for invocation i:
\* a new recognizer, whose init() promise becomes modelLoadPromise
InitTry(i, from) ==
    LET r == Len(promises) + 1
    IN  /\ recognizer' = r
        /\ promises' = Append(promises, [state |-> "pending", afterFailure |-> AnyRejected])
        /\ modelLoadPromise' = r
        /\ inits' = [j \in 1..Max(i, Len(from)) |->
                        IF j = i THEN [pc |-> "awaitLoad", rec |-> r] ELSE from[j]]

\* initOfflineHandwriting is called (the delayed auto-init or OfflineHandwriting.init)
InitStart ==
    /\ microtasks = <<>>
    /\ Len(inits) + Len(calls) < MaxInvocations
    /\ IF modulesLoaded
       THEN /\ InitTry(Len(inits) + 1, inits)
            /\ UNCHANGED <<isModelLoaded, modelLoadError, calls, microtasks, modulesLoaded>>
       ELSE /\ inits' = Append(inits, [pc |-> "scripts", rec |-> 0])
            /\ UNCHANGED <<recognizer, isModelLoaded, modelLoadPromise, modelLoadError,
                           promises, calls, microtasks, modulesLoaded>>
    /\ UNCHANGED <<capVars, procVars, ctcVars, tessVars, ocrVars, cropVars, appVars>>

\* loadTensorFlow and loadHandwritingModules of invocation i have loaded their scripts
ScriptsLoaded(i) ==
    /\ microtasks = <<>>
    /\ inits[i].pc = "scripts"
    /\ modulesLoaded' = TRUE
    /\ InitTry(i, inits)
    /\ UNCHANGED <<isModelLoaded, modelLoadError, calls, microtasks>>
    /\ UNCHANGED <<capVars, procVars, ctcVars, tessVars, ocrVars, cropVars, appVars>>

\* a script of invocation i failed to load: initOfflineHandwriting rejects
\* before its try block
ScriptsFailed(i) ==
    /\ microtasks = <<>>
    /\ inits[i].pc = "scripts"
    /\ inits' = [inits EXCEPT ![i].pc = "rejected"]
    /\ UNCHANGED <<recognizer, isModelLoaded, modelLoadPromise, modelLoadError,
                   promises, calls, microtasks, modulesLoaded>>
    /\ UNCHANGED <<capVars, procVars, ctcVars, tessVars, ocrVars, cropVars, appVars>>

\* the continuations registered on promise p, in the order of their awaits: the
\* init that created it, then the recognizeOffline calls waiting for it
Waiters(p) ==
    LET initsOn == SelectSeq([i \in 1..Len(inits) |-> [kind |-> "init", id |-> i]],
                             LAMBDA w : inits[w.id].pc = "awaitLoad" /\ inits[w.id].rec = p)
        callsOn == SelectSeq([k \in 1..Len(calls) |-> [kind |-> "call", id |-> k]],
                             LAMBDA w : calls[w.id].pc = "awaitLoad" /\ calls[w.id].awaited = p)
    IN  initsOn \o callsOn

\* recognizer.init() of recognizer p settles
LoadSettle(p, outcome) ==
    /\ microtasks = <<>>
    /\ IsPending(p)
    /\ promises' = [promises EXCEPT ![p].state = outcome]
    /\ microtasks' = Waiters(p)
    /\ UNCHANGED <<recognizer, isModelLoaded, modelLoadPromise, modelLoadError,
                   inits, calls, modulesLoaded>>
    /\ UNCHANGED <<capVars, procVars, ctcVars, tessVars, ocrVars, cropVars, appVars>>

\* initOfflineHandwriting after its await: lines 63-64, or the catch block
InitContinue(i) ==
    /\ inits' = [inits EXCEPT ![i].pc = "done"]
    /\ IF promises[inits[i].rec].state = "resolved"
       THEN isModelLoaded' = TRUE /\ UNCHANGED modelLoadError
       ELSE isModelLoaded' = FALSE /\ modelLoadError' = "load error"
    /\ UNCHANGED <<recognizer, modelLoadPromise, promises, calls, modulesLoaded>>

CanvasStrokes(canvasId) ==
    IF canvasId \in DOMAIN strokeCaptures THEN GetStrokes(strokeCaptures[canvasId]) ELSE <<>>

\* a recognizeOffline invocation, as it is when called.  Besides its position
\* (pc), its argument and the promise it awaits, a call records what the claims
\* speak of: the loads in flight and the strokes of its canvas when it was
\* called, and what it found when it went on after the wait.
NewCall(canvasId) ==
    [pc |-> "start", canvasId |-> canvasId, awaited |-> 0,
     pendingAtCall |-> {p \in 1..Len(promises) : IsPending(p)},
     failedAtCall |-> AnyRejected,
     loadedAtCall |-> IsOfflineAvailable,
     afterRecognition |-> \E j \in 1..Len(calls) : calls[j].recognized /\ calls[j].pc = "done",
     capAtCall |-> canvasId \in DOMAIN strokeCaptures,
     emptyAtCall |-> Len(CanvasStrokes(canvasId)) = 0,
     atCall |-> CanvasStrokes(canvasId),
     pointsAtCall |-> TotalCapPoints,
     decided |-> FALSE, capAtDecide |-> FALSE, emptyAtDecide |-> FALSE,
     sameAsAtCall |-> FALSE, availAtDecide |-> FALSE,
     recognized |-> FALSE, rec |-> 0, result |-> "none"]

\* what a call finds at the moment it goes on after the wait for the model
\* load: whether the model is available, and the strokes array that line 163
\* reads and line 169 passes on (compared with the strokes at the call, which
\* are then dropped from the record)
Decide(call) ==
    [call EXCEPT !.decided = TRUE,
                 !.capAtDecide = call.canvasId \in DOMAIN strokeCaptures,
                 !.emptyAtDecide = Len(CanvasStrokes(call.canvasId)) = 0,
                 !.sameAsAtCall = (CanvasStrokes(call.canvasId) = call.atCall),
                 !.atCall = <<>>,
                 !.pointsAtCall = 0,
                 !.availAtDecide = IsOfflineAvailable]

\* recognizeOffline from line 154 on, without the empty-strokes return
RecognizeTail_NoEmptyCheck(call) ==
    LET c == Decide(call)
    IN  IF ~isModelLoaded \/ recognizer = 0
        THEN [c EXCEPT !.pc = "done", !.result = "Model not available"]
        ELSE IF c.canvasId \notin DOMAIN strokeCaptures
        THEN [c EXCEPT !.pc = "done", !.result = "No stroke capture for canvas"]
        ELSE [c EXCEPT !.pc = "recognizing", !.recognized = TRUE, !.rec = recognizer]

\* recognizeOffline from line 154 on: the checks, then recognizer.recognize(strokes)
RecognizeTail(call) ==
    LET c == Decide(call)
    IN  IF ~isModelLoaded \/ recognizer = 0
        THEN [c EXCEPT !.pc = "done", !.result = "Model not available"]
        ELSE IF c.canvasId \notin DOMAIN strokeCaptures
        THEN [c EXCEPT !.pc = "done", !.result = "No stroke capture for canvas"]
        ELSE IF Len(GetStrokes(strokeCaptures[c.canvasId])) = 0
        THEN [c EXCEPT !.pc = "done", !.result = "empty"]
        ELSE [c EXCEPT !.pc = "recognizing", !.recognized = TRUE, !.rec = recognizer]

\* recognizeOffline(canvasId) is called: it awaits modelLoadPromise when there
\* is one, and goes straight on when there is none
RecognizeOfflineBody(canvasId) ==
    /\ LET k == Len(calls) + 1
           call == NewCall(canvasId)
       IN  IF modelLoadPromise # 0
           THEN /\ calls' = Append(calls, [call EXCEPT !.pc = "awaitLoad",
                                                        !.awaited = modelLoadPromise])
                /\ microtasks' = IF IsPending(modelLoadPromise) THEN <<>>
                                 ELSE <<[kind |-> "call", id |-> k]>>
           ELSE /\ calls' = Append(calls, RecognizeTail(call))
                /\ UNCHANGED microtasks
    /\ UNCHANGED <<recognizer, isModelLoaded, modelLoadPromise, modelLoadError,
                   promises, inits, modulesLoaded>>

\* recognizeOffline(canvasId) called on its own, as a task of the event loop
RecognizeOfflineStart(canvasId) ==
    /\ microtasks = <<>>
    /\ Len(inits) + Len(calls) < MaxInvocations
    /\ RecognizeOfflineBody(canvasId)
    /\ UNCHANGED <<capVars, procVars, ctcVars, tessVars, ocrVars, cropVars, appVars>>

\* recognizeOffline after its await: the await throws the rejection of a failed
\* load, otherwise the call goes on at line 154
CallContinue(k) ==
    /\ calls' = [calls EXCEPT ![k] =
                    IF promises[calls[k].awaited].state = "rejected"
                    THEN [Decide(@) EXCEPT !.pc = "done", !.result = "load error"]
                    ELSE RecognizeTail(@)]
    /\ UNCHANGED <<recognizer, isModelLoaded, modelLoadPromise, modelLoadError,
                   promises, inits, modulesLoaded>>

\* the event loop runs the next queued continuation
RunMicrotask ==
    /\ microtasks # <<>>
    /\ microtasks' = Tail(microtasks)
    /\ IF Head(microtasks).kind = "init"
       THEN InitContinue(Head(microtasks).id)
       ELSE CallContinue(Head(microtasks).id)
    /\ UNCHANGED <<capVars, procVars, ctcVars, tessVars, ocrVars, cropVars, appVars>>

\* recognizeOffline after recognizer.recognize(strokes), marking the model as
\* not loaded when the recognition threw
RecognizeSettle_Unloads(k, outcome) ==
    /\ microtasks = <<>>
    /\ calls[k].pc = "recognizing"
    /\ calls' = [calls EXCEPT ![k].pc = "done", ![k].result = outcome]
    /\ isModelLoaded' = (outcome = "text")
    /\ UNCHANGED <<recognizer, modelLoadPromise, modelLoadError,
                   promises, inits, microtasks, modulesLoaded>>
    /\ UNCHANGED <<capVars, procVars, ctcVars, tessVars, ocrVars, cropVars, appVars>>

\* recognizer.recognize(strokes) of call k settles: a result, or an error
RecognizeSettle(k, outcome) ==
    /\ microtasks = <<>>
    /\ calls[k].pc = "recognizing"
    /\ calls' = [calls EXCEPT ![k].pc = "done", ![k].result = outcome]
    /\ UNCHANGED <<recognizer, isModelLoaded, modelLoadPromise, modelLoadError,
                   promises, inits, microtasks, modulesLoaded>>
    /\ UNCHANGED <<capVars, procVars, ctcVars, tessVars, ocrVars, cropVars, appVars>>

----------------------------------------------------------------------------
(* Spec: the orchestrator with its captures *)

OrchSetup == \E c \in OrchCanvases : SetupCanvasCapture(c) /\ UNCHANGED <<orchVars, procVars, ctcVars, tessVars, ocrVars, cropVars, appVars>>
OrchClear == \E c \in OrchCanvases : ClearCanvasStrokes(c) /\ UNCHANGED <<orchVars, procVars, ctcVars, tessVars, ocrVars, cropVars, appVars>>
OrchDown  == \E c \in OrchCanvases, e \in OrchEvents :
                /\ c \in DOMAIN strokeCaptures
                /\ CapPoints(strokeCaptures[c]) < MaxOrchPoints
                /\ PointerDown(c, e)
                /\ UNCHANGED <<orchVars, procVars, ctcVars, tessVars, ocrVars, cropVars, appVars>>
OrchMove  == \E c \in OrchCanvases, e \in OrchEvents :
                /\ c \in DOMAIN strokeCaptures
                /\ CapPoints(strokeCaptures[c]) < MaxOrchPoints
                /\ PointerMove(c, e)
                /\ UNCHANGED <<orchVars, procVars, ctcVars, tessVars, ocrVars, cropVars, appVars>>
OrchUp    == \E c \in OrchCanvases : PointerUp(c) /\ UNCHANGED <<orchVars, procVars, ctcVars, tessVars, ocrVars, cropVars, appVars>>
OrchScriptsLoaded == \E i \in 1..Len(inits) : ScriptsLoaded(i)
OrchScriptsFailed == \E i \in 1..Len(inits) : ScriptsFailed(i)
OrchLoadSettle    == \E p \in 1..Len(promises), o \in {"resolved", "rejected"} : LoadSettle(p, o)
OrchRecognize     == \E c \in OrchCanvases : RecognizeOfflineStart(c)
OrchRecognizeSettle ==
    \E k \in 1..Len(calls), o \in {"text", "inference error"} : RecognizeSettle(k, o)

Init ==
    /\ CapInit /\ ProcIdle /\ CtcIdle /\ TessInit /\ OcrIdle /\ CropIdle /\ AppIdle
    /\ recognizer = 0
    /\ isModelLoaded = FALSE
    /\ modelLoadPromise = 0
    /\ modelLoadError = "null"
    /\ promises = <<>>
    /\ inits = <<>>
    /\ calls = <<>>
    /\ microtasks = <<>>
    /\ modulesLoaded \in BOOLEAN

Next ==
    \/ OrchSetup \/ OrchClear \/ OrchDown \/ OrchMove \/ OrchUp
    \/ InitStart \/ OrchScriptsLoaded \/ OrchScriptsFailed \/ OrchLoadSettle
    \/ OrchRecognize \/ RunMicrotask \/ OrchRecognizeSettle

Spec == Init /\ [][Next]_vars

\* the event loop runs every queued continuation, and an inference that was
\* started settles; nothing makes a script or a model load settle
FairSpec == Spec /\ WF_vars(RunMicrotask) /\ WF_vars(OrchRecognizeSettle)

----------------------------------------------------------------------------
(* C2 - C6: recognizeOffline and the model load *)

CallIds == 1..Len(calls)

\* the load that call k awaited has failed
AwaitFailed(k) ==
    calls[k].awaited # 0 /\ promises[calls[k].awaited].state = "rejected"

C3_AsClaimed ==
    /\ Len(promises) <= 1
    /\ \A k \in CallIds :
          calls[k].pendingAtCall # {} => calls[k].awaited \in calls[k].pendingAtCall

\* C4 as claimed: once a model load has failed no load is started again, the
\* system is never available afterwards, and every recognizeOffline call issued
\* afterwards fails with the model-unavailable error.
C4_AsClaimed ==
    /\ \A p \in 1..Len(promises) : ~promises[p].afterFailure
    /\ AnyRejected => ~IsOfflineAvailable
    /\ \A k \in CallIds :
          (calls[k].failedAtCall /\ calls[k].decided) =>
              /\ calls[k].pc = "done"
              /\ calls[k].result \in {"Model not available", "load error"}

\* C5 as claimed: the strokes a recognizeOffline call reads and recognizes are
\* the strokes its canvas held when the call was invoked.
C5_AsClaimed ==
    \A k \in CallIds :
        (calls[k].recognized \/ calls[k].result = "empty") => calls[k].sameAsAtCall

\* C6 as claimed: every recognizeOffline call eventually completes.
C6_AsClaimed ==
    \A k \in 1..MaxInvocations :
        (Len(calls) >= k) ~> (Len(calls) >= k /\ calls[k].pc = "done")

----------------------------------------------------------------------------
(* C13 *)

\* the model lifecycle state
Lifecycle == <<isModelLoaded, recognizer, modelLoadPromise, modelLoadError>>

\* a step of a recognizeOffline call: its invocation, its continuation after
\* the wait for the load, or the settling of its recognition
RecognizeOfflineStep == calls' # calls

\* what a call that goes on after its wait must do with a loaded model, a
\* capture with strokes and no failed load behind it: reach the recognizer
C13_Accepted ==
    \A k \in CallIds :
        (/\ calls[k].decided /\ calls[k].availAtDecide /\ ~AwaitFailed(k)
         /\ calls[k].capAtDecide /\ ~calls[k].emptyAtDecide) =>
            calls[k].recognized /\ calls[k].rec # 0

\* C13: no step of a recognizeOffline call changes isModelLoaded, recognizer,
\* modelLoadPromise or modelLoadError, whether its recognition returns or
\* throws, and a call that finds the model loaded (and strokes in its capture)
\* reaches the recognizer; so after a recognition the next call is accepted.
C13_ReadyReentered ==
    /\ [][RecognizeOfflineStep => UNCHANGED Lifecycle]_vars
    /\ []C13_Accepted

\* a recognition started with the model loaded has thrown, and a call invoked
\* after it has reached the recognizer
C13_Witness ==
    \E j, k \in CallIds :
        /\ j < k
        /\ calls[j].loadedAtCall /\ calls[j].result = "inference error"
        /\ calls[k].loadedAtCall /\ calls[k].afterRecognition /\ calls[k].recognized

----------------------------------------------------------------------------
(* SpecIso: the orchestrator with the captures of two canvases; recognizeOffline
   is called for the modal canvas while both canvases receive pointer events *)

IsoSetup == \E c \in CanvasIds : SetupCanvasCapture(c) /\ UNCHANGED <<orchVars, procVars, ctcVars, tessVars, ocrVars, cropVars, appVars>>
IsoClear == \E c \in CanvasIds : ClearCanvasStrokes(c) /\ UNCHANGED <<orchVars, procVars, ctcVars, tessVars, ocrVars, cropVars, appVars>>
IsoDownOn(c) ==
    \E e \in OrchEvents :
        /\ TotalCapPoints < MaxIsoPoints
        /\ PointerDown(c, e)
        /\ UNCHANGED <<orchVars, procVars, ctcVars, tessVars, ocrVars, cropVars, appVars>>
IsoDown  == \E c \in CanvasIds : IsoDownOn(c)
IsoMove  == \E c \in CanvasIds, e \in OrchEvents :
                /\ TotalCapPoints < MaxIsoPoints
                /\ PointerMove(c, e)
                /\ UNCHANGED <<orchVars, procVars, ctcVars, tessVars, ocrVars, cropVars, appVars>>
IsoUp    == \E c \in CanvasIds : PointerUp(c) /\ UNCHANGED <<orchVars, procVars, ctcVars, tessVars, ocrVars, cropVars, appVars>>
IsoInitStart == Len(inits) + Len(calls) < MaxIsoInvocations /\ InitStart
IsoRecognize == Len(inits) + Len(calls) < MaxIsoInvocations /\ OrchRecognize

InitIso == CapInit /\ OrchInit /\ ProcIdle /\ CtcIdle /\ TessInit /\ OcrIdle /\ CropIdle /\ AppIdle
NextIso ==
    \/ IsoSetup \/ IsoClear \/ IsoDown \/ IsoMove \/ IsoUp
    \/ IsoInitStart \/ OrchLoadSettle \/ IsoRecognize \/ RunMicrotask \/ OrchRecognizeSettle
SpecIso == InitIso /\ [][NextIso]_vars

----------------------------------------------------------------------------
(* C14 *)

\* a recognizeOffline call that has been invoked and has not completed
InFlight(k) == calls[k].pc \in {"awaitLoad", "recognizing"}

\* what one step may do to the captures: no capture is removed, a new capture
\* is empty, and at most one capture changes
IsolatedStep ==
    /\ DOMAIN strokeCaptures \subseteq DOMAIN strokeCaptures'
    /\ \A c \in DOMAIN strokeCaptures' \ DOMAIN strokeCaptures :
          strokeCaptures'[c] = NewCapture
    /\ \A c \in DOMAIN strokeCaptures', d \in DOMAIN strokeCaptures :
          (c # d /\ (c \notin DOMAIN strokeCaptures \/ strokeCaptures'[c] # strokeCaptures[c]))
              => strokeCaptures'[d] = strokeCaptures[d]

\* setupCanvasCapture for a canvas id that has a capture changes nothing
SetupReuses == \A c \in DOMAIN strokeCaptures : CapturesAfterSetup(c) = strokeCaptures

\* while a recognizeOffline call is in flight, a pointer-down on another canvas
\* can be handled (once the queued continuations have run) and records its point
RecordsWhileInFlight ==
    \A k \in CallIds, d \in DOMAIN strokeCaptures :
        (/\ InFlight(k) /\ d # calls[k].canvasId
         /\ microtasks = <<>> /\ TotalCapPoints < MaxIsoPoints) =>
            ENABLED (IsoDownOn(d) /\ Len(strokeCaptures'[d].currentStroke) = 1)

\* C14: the captures are kept per canvas id, one for each id; a pointer event
\* or a clearCanvasStrokes on one canvas changes no other canvas's capture; a
\* repeated setupCanvasCapture leaves the existing capture and its strokes as
\* they are; and pointer events on one canvas are recorded while a
\* recognizeOffline call for another canvas is in flight.
C14_Isolation ==
    /\ [][IsolatedStep]_vars
    /\ [](SetupReuses /\ RecordsWhileInFlight)

\* a stroke has been completed on the side canvas since a recognizeOffline
\* call for the modal canvas, which holds a stroke and is still waiting, was invoked
C14_Witness ==
    /\ DOMAIN strokeCaptures = CanvasIds
    /\ \E k \in CallIds :
          /\ calls[k].pc = "awaitLoad" /\ calls[k].canvasId = "modalCanvas"
          /\ ~calls[k].emptyAtCall
          /\ calls[k].atCall = strokeCaptures["modalCanvas"].strokes
          /\ TotalCapPoints > calls[k].pointsAtCall
    /\ Len(strokeCaptures["sideCanvas"].strokes) = 1

----------------------------------------------------------------------------
(* Texts: sequences of characters.  "a" is a Latin letter, "KA" a Devanagari
   letter, "!" a punctuation mark, " " a space, "NL" the line feed \n and
   "BEL" the control character \x07. *)

OcrChars == {"a", "KA", "!", " ", "NL", "BEL"}

\* /[\x00-\x1F\x7F]/
IsControl(c)  == c \in {"NL", "BEL"}
\* \s, and what trim() removes
IsSpace(c)    == c \in {" ", "NL"}
\* /[\u0900-\u097F\u0980-\u09FFa-zA-Z0-9]/
IsWordChar(c) == c \in {"a", "KA"}

HasWordChar(text) == \E i \in 1..Len(text) : IsWordChar(text[i])

RECURSIVE TrimStart(_)
TrimStart(text) ==
    IF text = <<>> THEN <<>>
    ELSE IF IsSpace(Head(text)) THEN TrimStart(Tail(text))
    ELSE text

RECURSIVE TrimEnd(_)
TrimEnd(text) ==
    IF text = <<>> THEN <<>>
    ELSE IF IsSpace(text[Len(text)]) THEN TrimEnd(SubSeq(text, 1, Len(text) - 1))
    ELSE text

\* String.prototype.trim
Trim(text) == TrimEnd(TrimStart(text))

\* text.replace(/[\x00-\x1F\x7F]/g, '')
RemoveControl(text) == SelectSeq(text, LAMBDA c : ~IsControl(c))

\* text.split('\n'), cur being the line read so far
RECURSIVE SplitOn(_, _)
SplitOn(text, cur) ==
    IF text = <<>> THEN <<cur>>
    ELSE IF Head(text) = "NL" THEN <<cur>> \o SplitOn(Tail(text), <<>>)
    ELSE SplitOn(Tail(text), Append(cur, Head(text)))

SplitLines(text) == SplitOn(text, <<>>)

\* lines.join(' ')
RECURSIVE JoinLines(_)
JoinLines(lines) ==
    IF lines = <<>> THEN <<>>
    ELSE IF Len(lines) = 1 THEN lines[1]
    ELSE lines[1] \o <<" ">> \o JoinLines(Tail(lines))

\* text.replace(/\s+/g, ' ')
RECURSIVE CollapseSpaces(_)
CollapseSpaces(text) ==
    IF text = <<>> THEN <<>>
    ELSE IF IsSpace(Head(text))
    THEN <<" ">> \o CollapseSpaces(TrimStart(text))
    ELSE <<Head(text)>> \o CollapseSpaces(Tail(text))

\* the filter of cleanOCRResult: lines with an alphanumeric or Devanagari character
KeepLine(line) == Len(Trim(line)) # 0 /\ HasWordChar(Trim(line))

\* cleanOCRResult
CleanOCRResult(text) ==
    IF text = <<>> THEN <<>>
    ELSE LET stripped   == Trim(RemoveControl(text))
             lines      == SplitLines(stripped)
             cleanLines == SelectSeq(lines, KeepLine)
         IN  CollapseSpaces(Trim(JoinLines(cleanLines)))

----------------------------------------------------------------------------
(* SpecClean: cleanOCRResult applied to bounded texts *)

InitClean ==
    /\ CapInit /\ OrchInit /\ ProcIdle /\ CtcIdle /\ TessInit /\ CropIdle /\ AppIdle
    /\ \E n \in 0..MaxTextLen : ocrIn \in [1..n -> OcrChars]
    /\ ocrOut = <<>>

CleanCall ==
    /\ ocrOut = <<>>
    /\ ocrOut' = <<CleanOCRResult(ocrIn)>>
    /\ UNCHANGED <<ocrIn, capVars, orchVars, procVars, ctcVars, tessVars, cropVars, appVars>>

NextClean == CleanCall
SpecClean == InitClean /\ [][NextClean]_vars

----------------------------------------------------------------------------
(* C12 *)

\* the number of characters of text that satisfy Test
CountChars(text, Test(_)) == Len(SelectSeq(text, Test))

IsPunct(c) == ~IsSpace(c) /\ ~IsControl(c) /\ ~IsWordChar(c)

\* the punctuation marks of the input lines that hold an alphanumeric or
\* Devanagari character, which are the only lines post-filtering may keep
RECURSIVE PunctOfKeptLines(_)
PunctOfKeptLines(lines) ==
    IF lines = <<>> THEN 0
    ELSE (IF HasWordChar(Head(lines)) THEN CountChars(Head(lines), IsPunct) ELSE 0)
         + PunctOfKeptLines(Tail(lines))

\* C12 as claimed: the output of cleanOCRResult has no control character, no
\* whitespace other than single spaces between non-space characters, nothing
\* from an input line made only of punctuation, and, when it is not empty, an
\* alphanumeric or Devanagari character.
C12_AsClaimed ==
    ocrOut # <<>> =>
        LET out == ocrOut[1]
        IN  /\ \A i \in 1..Len(out) : ~IsControl(out[i])
            /\ \A i \in 1..Len(out) :
                  IsSpace(out[i]) =>
                      out[i] = " " /\ i > 1 /\ i < Len(out) /\ ~IsSpace(out[i + 1])
            /\ CountChars(out, IsPunct) <= PunctOfKeptLines(SplitLines(ocrIn))
            /\ out # <<>> => HasWordChar(out)

----------------------------------------------------------------------------
(* TesseractHandwriting (part_002:16-330).  The worker serves the requests
   posted to it one at a time, in the order they were posted; a request is
   worker.recognize(blob) or worker.setParameters({tessedit_pageseg_mode}).
   The continuation of an await runs with the step that settles its promise. *)

\* the confidence below which the alternate mode is tried
confThreshold == 60

\* result.data of a recognition: the text before trim(), and the confidence
TessData(text, confidence) == [text |-> text, confidence |-> confidence]

\* the drawings on the canvas argument: what Tesseract reads from the drawing
\* in page segmentation mode 6 and in mode 7
TessImages ==
    { [m6 |-> TessData(<<"a", " ">>, confThreshold), m7 |-> TessData(<<"a">>, 30)],
      [m6 |-> TessData(<<"a">>, 30),                 m7 |-> TessData(<<"KA", " ">>, confThreshold)],
      [m6 |-> TessData(<<"a">>, 0),                  m7 |-> TessData(<<" ">>, 0)],
      [m6 |-> TessData(<<" ">>, 0),                  m7 |-> TessData(<<"!">>, 30)],
      [m6 |-> TessData(<<"a">>, 30),                 m7 |-> TessData(<<"KA">>, 30)] }

\* worker.recognize(blob) of a drawing in the mode in effect on the worker
Ocr(image, mode) == IF mode = "7" THEN image.m7 ELSE image.m6

\* a recognizeFromCanvas invocation, as it is when called: psm6 and psm7 are the
\* modes that were in effect in its primary and in its alternate recognition,
\* initAtCall is the initialization promise as the call found it
NewTessCall(image) ==
    [pc |-> "start", image |-> image, initAtCall |-> initPromise,
     psm6 |-> "none", alt |-> FALSE, psm7 |-> "none",
     bestText |-> <<>>, bestConf |-> 0,
     outcome |-> "none", text |-> <<>>, success |-> FALSE]

\* lines 258-269: post-filter the best text and return the result
Finish(call) ==
    LET cleaned == CleanOCRResult(call.bestText)
    IN  [call EXCEPT !.pc = "done", !.outcome = "returned",
                     !.text = cleaned, !.success = (Len(cleaned) > 0)]

\* lines 271-278: the catch of the outer try
FinishError(call) ==
    [call EXCEPT !.pc = "done", !.outcome = "error result", !.text = <<>>, !.success = FALSE]

\* the await of initTesseract() throws
FinishInitError(call) == [call EXCEPT !.pc = "done", !.outcome = "init error"]

\* the body of initTesseract behind its guard: the async function of lines
\* 29-56 runs up to its first await
StartInit ==
    /\ initPromise' = "pending"
    /\ initPc' = "createWorker"
    /\ createCount' = createCount + 1

\* initTesseract that starts over when the promise it holds is rejected
InitTesseract_Retry ==
    IF initPromise \in {"pending", "resolved"}
    THEN UNCHANGED <<initPromise, initPc, createCount>>
    ELSE StartInit

\* initTesseract: return the promise there is, or start the initialization
InitTesseract ==
    IF initPromise # "null"
    THEN UNCHANGED <<initPromise, initPc, createCount>>
    ELSE StartInit

\* TesseractHandwriting.init() is called
TessInitCall ==
    /\ tessInits + Len(tessCalls) < MaxTessCalls
    /\ tessInits' = tessInits + 1
    /\ InitTesseract
    /\ UNCHANGED <<worker, isInitialized, workerPsm, jobs, tessCalls>>
    /\ UNCHANGED <<capVars, orchVars, procVars, ctcVars, ocrVars, cropVars, appVars>>

\* the calls that await the initialization go on: to preprocessCanvas and
\* toBlob when it succeeded, to an exception when it failed
AfterInit(ok) ==
    [k \in 1..Len(tessCalls) |->
        IF tessCalls[k].pc # "awaitInit" THEN tessCalls[k]
        ELSE IF ok THEN [tessCalls[k] EXCEPT !.pc = "toBlob"]
        ELSE FinishInitError(tessCalls[k])]

\* Tesseract.createWorker settles: the worker, and the setParameters request
\* of lines 43-47, or the rejection of initPromise
CreateWorkerSettle(ok) ==
    /\ initPc = "createWorker"
    /\ IF ok
       THEN /\ worker' = 1
            /\ jobs' = Append(jobs, [call |-> 0, kind |-> "set", mode |-> "6"])
            /\ initPc' = "setParameters"
            /\ UNCHANGED <<initPromise, tessCalls>>
       ELSE /\ initPc' = "failed"
            /\ initPromise' = "rejected"
            /\ tessCalls' = AfterInit(FALSE)
            /\ UNCHANGED <<worker, jobs>>
    /\ UNCHANGED <<isInitialized, workerPsm, createCount, tessInits>>
    /\ UNCHANGED <<capVars, orchVars, procVars, ctcVars, ocrVars, cropVars, appVars>>

\* recognizeFromCanvas(canvas) is called: lines 207-220 up to the first await
RecognizeFromCanvasStart(image) ==
    /\ tessInits + Len(tessCalls) < MaxTessCalls
    /\ IF isInitialized
       THEN /\ tessCalls' = Append(tessCalls, [NewTessCall(image) EXCEPT !.pc = "toBlob"])
            /\ UNCHANGED <<initPromise, initPc, createCount>>
       ELSE /\ InitTesseract
            /\ tessCalls' = Append(tessCalls,
                              IF initPromise = "rejected"
                              THEN FinishInitError(NewTessCall(image))
                              ELSE [NewTessCall(image) EXCEPT !.pc = "awaitInit"])
    /\ UNCHANGED <<worker, isInitialized, workerPsm, jobs, tessInits>>
    /\ UNCHANGED <<capVars, orchVars, procVars, ctcVars, ocrVars, cropVars, appVars>>

\* toBlob calls back: line 228 posts the primary recognition
BlobReady(k) ==
    /\ tessCalls[k].pc = "toBlob"
    /\ tessCalls' = [tessCalls EXCEPT ![k].pc = "recognize6"]
    /\ jobs' = Append(jobs, [call |-> k, kind |-> "recognize", mode |-> "none"])
    /\ UNCHANGED <<worker, isInitialized, initPromise, initPc, workerPsm, createCount, tessInits>>
    /\ UNCHANGED <<capVars, orchVars, procVars, ctcVars, ocrVars, cropVars, appVars>>

\* lines 233-236 and 247-250: a result replaces the best one when its
\* confidence is higher and its text is not empty
TakeBest(call, text, conf) ==
    IF conf > call.bestConf /\ Len(text) > 0
    THEN [call EXCEPT !.bestText = text, !.bestConf = conf]
    ELSE call

\* line 239
NeedsAlternate(call) == call.bestConf < confThreshold \/ Len(call.bestText) = 0

\* the first request of the worker is served for call k, which goes on after
\* its await up to the next one
ServeCall(k, ok) ==
    LET call == tessCalls[k]
        res  == Ocr(call.image, workerPsm)
    IN  CASE call.pc = "recognize6" ->
               IF ok
               THEN LET c == TakeBest([call EXCEPT !.psm6 = workerPsm],
                                      Trim(res.text), res.confidence)
                    IN  IF NeedsAlternate(c)
                        THEN /\ tessCalls' = [tessCalls EXCEPT ![k] =
                                                 [c EXCEPT !.pc = "set7", !.alt = TRUE]]
                             /\ jobs' = Append(Tail(jobs),
                                               [call |-> k, kind |-> "set", mode |-> "7"])
                             /\ UNCHANGED workerPsm
                        ELSE /\ tessCalls' = [tessCalls EXCEPT ![k] = Finish(c)]
                             /\ jobs' = Tail(jobs)
                             /\ UNCHANGED workerPsm
               ELSE /\ tessCalls' = [tessCalls EXCEPT ![k] = FinishError(call)]
                    /\ jobs' = Tail(jobs)
                    /\ UNCHANGED workerPsm
          [] call.pc = "set7" ->
               IF ok
               THEN /\ workerPsm' = "7"
                    /\ tessCalls' = [tessCalls EXCEPT ![k].pc = "recognize7"]
                    /\ jobs' = Append(Tail(jobs),
                                      [call |-> k, kind |-> "recognize", mode |-> "none"])
               ELSE /\ tessCalls' = [tessCalls EXCEPT ![k] = Finish(call)]
                    /\ jobs' = Tail(jobs)
                    /\ UNCHANGED workerPsm
          [] call.pc = "recognize7" ->
               IF ok
               THEN LET c == TakeBest([call EXCEPT !.psm7 = workerPsm],
                                      Trim(res.text), res.confidence)
                    IN  /\ tessCalls' = [tessCalls EXCEPT ![k] = [c EXCEPT !.pc = "reset6"]]
                        /\ jobs' = Append(Tail(jobs),
                                          [call |-> k, kind |-> "set", mode |-> "6"])
                        /\ UNCHANGED workerPsm
               ELSE /\ tessCalls' = [tessCalls EXCEPT ![k] = Finish(call)]
                    /\ jobs' = Tail(jobs)
                    /\ UNCHANGED workerPsm
          [] OTHER ->
               \* pc = "reset6": line 252, then lines 258-269
               /\ workerPsm' = IF ok THEN "6" ELSE workerPsm
               /\ tessCalls' = [tessCalls EXCEPT ![k] = Finish(call)]
               /\ jobs' = Tail(jobs)

\* the first request of the worker is served for the initialization: lines
\* 43-50, or the catch of lines 52-55
ServeInit(ok) ==
    /\ jobs' = Tail(jobs)
    /\ IF ok
       THEN /\ workerPsm' = "6"
            /\ isInitialized' = TRUE
            /\ initPromise' = "resolved"
            /\ initPc' = "done"
            /\ tessCalls' = AfterInit(TRUE)
       ELSE /\ initPromise' = "rejected"
            /\ initPc' = "failed"
            /\ tessCalls' = AfterInit(FALSE)
            /\ UNCHANGED <<workerPsm, isInitialized>>

\* the worker serves its first request, which succeeds or fails
ServeJob(ok) ==
    /\ jobs # <<>>
    /\ IF Head(jobs).call = 0
       THEN ServeInit(ok)
       ELSE ServeCall(Head(jobs).call, ok) /\ UNCHANGED <<isInitialized, initPromise, initPc>>
    /\ UNCHANGED <<worker, createCount, tessInits>>
    /\ UNCHANGED <<capVars, orchVars, procVars, ctcVars, ocrVars, cropVars, appVars>>

----------------------------------------------------------------------------
(* SpecTess: TesseractHandwriting with its worker *)

TessCreateWorkerSettle == \E ok \in BOOLEAN : CreateWorkerSettle(ok)
TessBlobReady == \E k \in 1..Len(tessCalls) : BlobReady(k)
TessServeJob  == \E ok \in BOOLEAN : ServeJob(ok)
TessRecognize == \E image \in TessImages : RecognizeFromCanvasStart(image)

InitTess == CapInit /\ OrchInit /\ ProcIdle /\ CtcIdle /\ OcrIdle /\ CropIdle /\ AppIdle /\ TessInit
NextTess ==
    \/ TessInitCall \/ TessCreateWorkerSettle \/ TessRecognize
    \/ TessBlobReady \/ TessServeJob
SpecTess == InitTess /\ [][NextTess]_vars

----------------------------------------------------------------------------
(* C11 *)

TessCallIds == 1..Len(tessCalls)

\* the primary and the alternate recognition of a call have returned
Has6(call) == call.psm6 # "none"
Has7(call) == call.psm7 # "none"

\* their trimmed texts and their confidences (lines 229-230 and 243-244)
Text6(call) == Trim(Ocr(call.image, call.psm6).text)
Conf6(call) == Ocr(call.image, call.psm6).confidence
Text7(call) == Trim(Ocr(call.image, call.psm7).text)
Conf7(call) == Ocr(call.image, call.psm7).confidence

\* the result C11 says is kept: of the attempts with a non-empty text the one
\* with the higher confidence (the primary one when they are equal), and the
\* empty text when no attempt has a non-empty text
ClaimedBest(call) ==
    LET ok6 == Has6(call) /\ Len(Text6(call)) > 0
        ok7 == Has7(call) /\ Len(Text7(call)) > 0
    IN  IF ok6 /\ ok7 THEN (IF Conf7(call) > Conf6(call) THEN Text7(call) ELSE Text6(call))
        ELSE IF ok6 THEN Text6(call)
        ELSE IF ok7 THEN Text7(call)
        ELSE <<>>

\* C11 as claimed: the primary pass of a recognizeFromCanvas call runs in mode
\* 6; the alternate mode 7 is tried exactly when the primary confidence is
\* below 60 or the primary text is empty; the text kept before post-filtering
\* is that of the non-empty result with the higher confidence, so it is not
\* empty when an attempt gave a non-empty text.
C11_AsClaimed ==
    \A k \in TessCallIds :
        LET call == tessCalls[k]
        IN  /\ Has6(call) => call.psm6 = "6"
            /\ Has6(call) =>
                  (call.alt <=> (Conf6(call) < confThreshold \/ Len(Text6(call)) = 0))
            /\ Has7(call) => call.psm7 = "7"
            /\ call.outcome = "returned" =>
                  /\ call.bestText = ClaimedBest(call)
                  /\ ((Has6(call) /\ Len(Text6(call)) > 0) \/ (Has7(call) /\ Len(Text7(call)) > 0))
                        => Len(call.bestText) > 0

----------------------------------------------------------------------------
(* C24 *)

\* what a step does once the initialization has failed: the promise stays
\* rejected, createWorker is not called and the worker is not replaced, and a
\* recognizeFromCanvas call made now fails on its await of the promise
AfterFailedInit ==
    initPromise = "rejected" =>
        /\ initPromise' = "rejected"
        /\ createCount' = createCount
        /\ worker' = worker
        /\ isInitialized' = isInitialized
        /\ \A k \in 1..Len(tessCalls') :
              k > Len(tessCalls) => tessCalls'[k].outcome = "init error"

\* the callers that wait for the initialization wait for the one promise of
\* the module: none waits unless it is pending, and none is left waiting
\* when it settles
SharedInitPromise ==
    /\ \A k \in TessCallIds : tessCalls[k].pc = "awaitInit" => initPromise = "pending"
    /\ initPromise = "null" => createCount = 0
    /\ initPromise = "resolved" <=> isInitialized

\* C24: over any interleaving of init() and recognize() calls createWorker is
\* invoked at most once; all callers wait for the same initialization promise;
\* and once the initialization has failed every later init() returns the
\* rejected promise and every later recognize() fails, without another
\* createWorker.
C24_WorkerOnce ==
    /\ [][AfterFailedInit]_vars
    /\ [](createCount <= 1 /\ SharedInitPromise)
    /\ [](\A k \in TessCallIds :
             tessCalls[k].initAtCall = "rejected" => tessCalls[k].outcome = "init error")

\* the initialization has failed after createWorker was called, a call that
\* waited for it has failed, and a call made after the failure has failed
C24_Witness ==
    /\ initPromise = "rejected" /\ createCount = 1
    /\ \E j, k \in TessCallIds :
          /\ tessCalls[j].initAtCall = "null" /\ tessCalls[j].outcome = "init error"
          /\ tessCalls[k].initAtCall = "rejected" /\ tessCalls[k].outcome = "init error"

----------------------------------------------------------------------------
(* C25 *)

\* a call is between its switch to mode 7 and its reset to mode 6
InAlternate(call) == call.pc \in {"recognize7", "reset6"}

\* C25 as claimed: the primary pass of every recognizeFromCanvas call runs in
\* page segmentation mode 6; mode 7 is in effect on the worker only while a
\* call is in its alternate attempt, which restores mode 6 before the call
\* ends, also when the alternate recognition throws; and no primary pass runs
\* under the mode 7 of an overlapping call.
C25_AsClaimed ==
    /\ \A k \in TessCallIds : Has6(tessCalls[k]) => tessCalls[k].psm6 = "6"
    /\ workerPsm = "7" => \E k \in TessCallIds : InAlternate(tessCalls[k])

----------------------------------------------------------------------------
(* C26 *)

\* C26 as claimed: isOfflineAvailable() returns true only when the recognizer
\* the module holds has completed its model load successfully.
C26_AsClaimed ==
    IsOfflineAvailable => promises[recognizer].state = "resolved"

----------------------------------------------------------------------------
(* C27 *)

\* a pointer-move never supplies the first point of a stroke: the stroke it
\* extends holds the point of the pointer-down that started it
MoveNeverFirst ==
    \A cap \in AllCaptures, e \in PointerEvents :
        Len(OnPointerMove(cap, e).currentStroke) # 1

\* the recorded points of a capture become fewer only by clear()
LostOnlyByClear ==
    \A c \in DOMAIN strokeCaptures :
        CapPoints(strokeCaptures'[c]) < CapPoints(strokeCaptures[c])
            => strokeCaptures'[c] = ClearCapture(strokeCaptures[c])

\* C27 as claimed: for any sequence of pointer-down, pointer-move, pointer-up
\* and clear events every stroke is one complete gesture: it starts with the
\* point of a pointer-down (a pointer-move never supplies the first point),
\* and no point recorded after a pointer-down is lost except by clear().
C27_AsClaimed == [][LostOnlyByClear]_vars /\ []MoveNeverFirst

----------------------------------------------------------------------------
(* preprocessCanvas, steps 1 and 2 (part_002:65-122).  A canvas is its width,
   its height and the pixels whose alpha is not 0, each with its position. *)

\* the alpha above which a pixel belongs to a stroke
alphaThreshold == 20
\* the margin kept around the strokes
PADDING == 40

\* imageData.data[(y * width + x) * 4 + 3]
AlphaAt(canvas, x, y) ==
    IF \E p \in canvas.pixels : p.x = x /\ p.y = y
    THEN (CHOOSE p \in canvas.pixels : p.x = x /\ p.y = y).alpha
    ELSE 0

\* the loops of findStrokeBounds over the rows and, in a row, over the
\* columns: the pixels of alpha 0 fail the test of line 73 and are passed over
RECURSIVE ScanPixels(_, _, _)
ScanPixels(canvas, todo, acc) ==
    IF todo = {} THEN acc
    ELSE LET p == CHOOSE p \in todo :
                     \A q \in todo : p.y * canvas.width + p.x <= q.y * canvas.width + q.x
             next == IF AlphaAt(canvas, p.x, p.y) > alphaThreshold
                     THEN [minX |-> IF p.x < acc.minX THEN p.x ELSE acc.minX,
                           maxX |-> IF p.x > acc.maxX THEN p.x ELSE acc.maxX,
                           minY |-> IF p.y < acc.minY THEN p.y ELSE acc.minY,
                           maxY |-> IF p.y > acc.maxY THEN p.y ELSE acc.maxY,
                           found |-> TRUE]
                     ELSE acc
         IN  ScanPixels(canvas, todo \ {p}, next)

\* findStrokeBounds that takes every pixel that is not fully transparent
FindStrokeBounds_AnyAlpha(canvas) ==
    IF canvas.pixels = {} THEN <<>>
    ELSE LET xs == {p.x : p \in canvas.pixels}
             ys == {p.y : p \in canvas.pixels}
             minX == CHOOSE v \in xs : \A w \in xs : v <= w
             maxX == CHOOSE v \in xs : \A w \in xs : v >= w
             minY == CHOOSE v \in ys : \A w \in ys : v <= w
             maxY == CHOOSE v \in ys : \A w \in ys : v >= w
         IN  <<[minX |-> minX, minY |-> minY, maxX |-> maxX, maxY |-> maxY,
                width |-> maxX - minX + 1, height |-> maxY - minY + 1]>>

\* findStrokeBounds: <<>> for null, else the one record returned
FindStrokeBounds(canvas) ==
    LET acc == ScanPixels(canvas, canvas.pixels,
                          [minX |-> canvas.width, minY |-> canvas.height,
                           maxX |-> 0, maxY |-> 0, found |-> FALSE])
    IN  IF ~acc.found THEN <<>>
        ELSE <<[minX |-> acc.minX, minY |-> acc.minY, maxX |-> acc.maxX, maxY |-> acc.maxY,
                width |-> acc.maxX - acc.minX + 1, height |-> acc.maxY - acc.minY + 1]>>

\* preprocessCanvas up to the size of the output canvas: the bounds, the crop
\* rectangle (none when there are no strokes) and the output size
PreprocessCanvas(canvas) ==
    LET found == FindStrokeBounds(canvas)
    IN  IF found = <<>>
        THEN [bounds |-> <<>>, crop |-> <<>>, outW |-> 100, outH |-> 50]
        ELSE LET bounds == found[1]
                 cropX == Max(0, bounds.minX - PADDING)
                 cropY == Max(0, bounds.minY - PADDING)
                 cropW == Min(canvas.width - cropX, bounds.width + PADDING * 2)
                 cropH == Min(canvas.height - cropY, bounds.height + PADDING * 2)
             IN  [bounds |-> found,
                  crop |-> <<[cropX |-> cropX, cropY |-> cropY, cropW |-> cropW, cropH |-> cropH]>>,
                  outW |-> cropW * 3, outH |-> cropH * 3]

----------------------------------------------------------------------------
(* SpecCrop: preprocessCanvas applied to bounded canvases *)

\* the sides a canvas may have, and the coordinates a pixel may have on a side
CanvasSides == {1, PADDING + 1, MaxSide}
Coords(n) == {v \in 0..(n - 1) : v \in {0, PADDING - 1, PADDING, PADDING + 1, n - 1}}
\* the alpha of a pixel that is not fully transparent
Alphas == {alphaThreshold, alphaThreshold + 1}

\* the pixels listed by f, a later entry for a position replacing an earlier one
PixelsOf(f) ==
    {[x |-> f[i][1], y |-> f[i][2], alpha |-> f[i][3]] : i \in
        {i \in DOMAIN f : \A j \in DOMAIN f : (j > i) => (f[j][1] # f[i][1] \/ f[j][2] # f[i][2])}}

InitCrop ==
    /\ CapInit /\ OrchInit /\ ProcIdle /\ CtcIdle /\ TessInit /\ OcrIdle /\ AppIdle
    /\ \E w \in CanvasSides, h \in CanvasSides, n \in 0..MaxPixels :
          \E f \in [1..n -> Coords(w) \X Coords(h) \X Alphas] :
             cropIn = [width |-> w, height |-> h, pixels |-> PixelsOf(f)]
    /\ cropOut = <<>>

PreprocessCall ==
    /\ cropOut = <<>>
    /\ cropOut' = <<PreprocessCanvas(cropIn)>>
    /\ UNCHANGED <<cropIn, capVars, orchVars, procVars, ctcVars, tessVars, ocrVars, appVars>>

NextCrop == PreprocessCall
SpecCrop == InitCrop /\ [][NextCrop]_vars

----------------------------------------------------------------------------
(* C30 *)

\* the pixels of the canvas whose alpha is above 20
StrokePixels == {p \in cropIn.pixels : p.alpha > alphaThreshold}

----------------------------------------------------------------------------
(* Location data of the app script (offline_handwriting.js:531-615).  The
   value of a provinces property is an array with its items, or one of the
   other values JSON can hold there: nothing (absent, null, "", 0), an object
   or number (no length), a non-empty text (a length, no items). *)

LocArray(items) == [kind |-> "array", items |-> items]
LocOther(kind)  == [kind |-> kind, items |-> <<>>]

\* a province list of the API: the district D1 exists in both provinces
ApiProvinces ==
    << [province_name |-> "P1",
        districts |-> << [district_name |-> "D1", municipalities |-> <<"M1", "M2">>],
                         [district_name |-> "D2", municipalities |-> <<>>] >>],
       [province_name |-> "P2",
        districts |-> << [district_name |-> "D1", municipalities |-> <<"M3">>],
                         [district_name |-> "D3", municipalities |-> <<"M4", "M5">>] >>],
       [province_name |-> "P3",
        districts |-> << [district_name |-> "D4", municipalities |-> <<"M6">>] >>] >>

\* NEPAL_LOCATIONS_FALLBACK: provinces with districts that have no municipalities
FallbackProvinces ==
    << [province_name |-> "P1",
        districts |-> << [district_name |-> "D1", municipalities |-> <<>>],
                         [district_name |-> "D2", municipalities |-> <<>>] >>],
       [province_name |-> "P2",
        districts |-> << [district_name |-> "D3", municipalities |-> <<>>] >>] >>

\* a location object: its country.provinces, and where it came from
LocationObject(provinces, source) == <<[provinces |-> provinces, source |-> source]>>
NEPAL_LOCATIONS_FALLBACK == LocationObject(LocArray(FallbackProvinces), "fallback")

\* !!v and v.length of a provinces value (-1 for undefined)
Truthy(v) == v.kind # "absent"
JsLength(v) ==
    CASE v.kind \in {"array", "arrayWithNull"} -> Len(v.items)
      [] v.kind = "text" -> 1
      [] OTHER -> -1

\* the test of lines 556 and 706
HasProvinces(data) ==
    data # <<>> /\ Truthy(data[1].provinces) /\ JsLength(data[1].provinces) > 0

\* what response.json() can give: the Nepali or the English shape with any
\* value for the provinces, or a document of neither shape
ApiProvinceValues ==
    { LocOther("absent"), LocArray(<<>>), LocArray(ApiProvinces),
      [kind |-> "arrayWithNull", items |-> ApiProvinces],
      LocOther("object"), LocOther("text") }
ApiAnswers ==
    [shape : {"nepali", "english"}, provinces : ApiProvinceValues]
        \cup {[shape |-> "other", provinces |-> LocOther("absent")]}

\* lines 573-600: the object built from the data, <<>> when map() throws
\* (the provinces are no array, or an item is null)
FromAnswer(answer) ==
    IF answer.shape = "nepali" /\ Truthy(answer.provinces)
    THEN IF answer.provinces.kind = "array"
         THEN LocationObject(answer.provinces, "api")
         ELSE <<>>
    ELSE IF answer.shape = "english" /\ Truthy(answer.provinces)
    THEN LocationObject(answer.provinces, "api")
    ELSE NEPAL_LOCATIONS_FALLBACK

\* lines 572-611: locationData after response.json() has given the data
AfterJson(answer) ==
    LET built == FromAnswer(answer)
    IN  IF built = <<>> THEN NEPAL_LOCATIONS_FALLBACK
        ELSE IF ~Truthy(built[1].provinces) \/ JsLength(built[1].provinces) = 0
        THEN NEPAL_LOCATIONS_FALLBACK
        ELSE built

\* loadLocationData is called: up to the await of fetch
StartLoad(by) == locLoads' = Append(locLoads, [pc |-> "fetch", by |-> by])

\* loadInitialData, called once when the page has loaded
LoadInitialData ==
    /\ \A l \in 1..Len(locLoads) : locLoads[l].by # "initial"
    /\ StartLoad("initial")
    /\ UNCHANGED <<locationData, locationDataPromise, locEnsures>>

\* ensureLocationData: the promise it returns is 0 for Promise.resolve(), else
\* the loadLocationData invocation
EnsureLocationData(caller) ==
    IF HasProvinces(locationData)
    THEN /\ locEnsures' = Append(locEnsures, [promise |-> 0, caller |-> caller])
         /\ UNCHANGED <<locationData, locationDataPromise, locLoads>>
    ELSE IF locationDataPromise = 0
    THEN /\ StartLoad("ensure")
         /\ locationDataPromise' = Len(locLoads) + 1
         /\ locEnsures' = Append(locEnsures, [promise |-> Len(locLoads) + 1, caller |-> caller])
         /\ UNCHANGED locationData
    ELSE /\ locEnsures' = Append(locEnsures, [promise |-> locationDataPromise, caller |-> caller])
         /\ UNCHANGED <<locationData, locationDataPromise, locLoads>>

\* the fetch of invocation l settles: a network error, a status that is not
\* OK, or an OK response
LocFetchSettle(l, outcome) ==
    /\ locLoads[l].pc = "fetch"
    /\ IF outcome = "ok"
       THEN /\ locLoads' = [locLoads EXCEPT ![l].pc = "json"]
            /\ UNCHANGED locationData
       ELSE /\ locLoads' = [locLoads EXCEPT ![l].pc = "done"]
            /\ locationData' = NEPAL_LOCATIONS_FALLBACK
    /\ UNCHANGED <<locationDataPromise, locEnsures>>

\* response.json() of invocation l settles: a parse error, or the data
LocJsonSettle(l, parsed, answer) ==
    /\ locLoads[l].pc = "json"
    /\ locLoads' = [locLoads EXCEPT ![l].pc = "done"]
    /\ locationData' = IF parsed THEN AfterJson(answer) ELSE NEPAL_LOCATIONS_FALLBACK
    /\ UNCHANGED <<locationDataPromise, locEnsures>>

----------------------------------------------------------------------------
(* SpecLoc: the location data alone *)

LocRest == <<capVars, orchVars, procVars, ctcVars, tessVars, ocrVars, cropVars,
             dropVars, docVars, submitVars>>

LocInitial == LoadInitialData /\ UNCHANGED LocRest
LocEnsure  ==
    /\ Len(locEnsures) < MaxEnsures
    /\ EnsureLocationData(0)
    /\ UNCHANGED LocRest
LocFetch   ==
    \E l \in 1..Len(locLoads), o \in {"network error", "not ok", "ok"} :
        LocFetchSettle(l, o) /\ UNCHANGED LocRest
LocJson    ==
    \E l \in 1..Len(locLoads), parsed \in BOOLEAN, answer \in ApiAnswers :
        LocJsonSettle(l, parsed, answer) /\ UNCHANGED LocRest

InitLoc ==
    /\ CapInit /\ OrchInit /\ ProcIdle /\ CtcIdle /\ TessInit /\ OcrIdle /\ CropIdle
    /\ AppIdle
NextLoc == LocInitial \/ LocEnsure \/ LocFetch \/ LocJson
SpecLoc == InitLoc /\ [][NextLoc]_vars

----------------------------------------------------------------------------
(* C22 *)

\* locationData holds a non-empty list of provinces
HoldsProvinceList ==
    /\ locationData # <<>>
    /\ locationData[1].provinces.kind \in {"array", "arrayWithNull"}
    /\ Len(locationData[1].provinces.items) > 0

\* the promise an ensureLocationData call returned is resolved
EnsureResolved(e) == e.promise = 0 \/ locLoads[e.promise].pc = "done"

\* C22 as claimed: whenever a loadLocationData invocation has completed,
\* whatever the API gave, locationData holds a non-empty province list; and the
\* promise returned by ensureLocationData is resolved only when it does.
C22_AsClaimed ==
    /\ (\E l \in 1..Len(locLoads) : locLoads[l].pc = "done") => HoldsProvinceList
    /\ \A i \in 1..Len(locEnsures) : EnsureResolved(locEnsures[i]) => HoldsProvinceList

----------------------------------------------------------------------------
(* The cascading location selects of the address groups of a form
   (offline_handwriting.js:700-740, 777-866).  A select is the list of its
   options with a non-empty value, and its value; the placeholder option has the
   value "". *)

SelectOf(options) == [options |-> options, value |-> ""]

\* the first item of a list with the given name under the key, <<>> if none
ProvinceNamed(name) ==
    LET items == locationData[1].provinces.items
        found == {i \in 1..Len(items) : items[i].province_name = name}
    IN  IF found = {} THEN <<>>
        ELSE <<items[CHOOSE i \in found : \A j \in found : i <= j]>>
DistrictNamed(province, name) ==
    LET found == {i \in 1..Len(province.districts) :
                      province.districts[i].district_name = name}
    IN  IF found = {} THEN <<>>
        ELSE <<province.districts[CHOOSE i \in found : \A j \in found : i <= j]>>

\* createFieldElement for the province, district and municipality fields of
\* every address group of a template whose district fields list the given
\* options
CreateFieldElements(provinces, districts, municipalities, templateDistricts) ==
    /\ provinces =
           [g \in AddressGroups |->
               SelectOf(IF HasProvinces(locationData)
                        THEN [i \in 1..Len(locationData[1].provinces.items) |->
                                 locationData[1].provinces.items[i].province_name]
                        ELSE <<>>)]
    /\ districts = [g \in AddressGroups |-> SelectOf(templateDistricts)]
    /\ municipalities = [g \in AddressGroups |-> SelectOf(<<>>)]

\* the user picks an entry of the province select of group g:
\* handleProvinceChange
HandleProvinceChange(g, selectedProvinceName) ==
    /\ provinceSelect' = [provinceSelect EXCEPT ![g].value = selectedProvinceName]
    /\ IF \/ selectedProvinceName = ""
          \/ locationData = <<>>
          \/ ~Truthy(locationData[1].provinces)
       THEN /\ districtSelect' = [districtSelect EXCEPT ![g] = SelectOf(<<>>)]
            /\ UNCHANGED municipalitySelect
       ELSE LET province == ProvinceNamed(selectedProvinceName)
            IN  /\ districtSelect' =
                       [districtSelect EXCEPT ![g] =
                           SelectOf(IF province = <<>> THEN <<>>
                                    ELSE [i \in 1..Len(province[1].districts) |->
                                             province[1].districts[i].district_name])]
                /\ municipalitySelect' = [municipalitySelect EXCEPT ![g] = SelectOf(<<>>)]

\* the user picks an entry of the district select of group g:
\* handleDistrictChange
HandleDistrictChange(g, selectedDistrictName) ==
    /\ districtSelect' = [districtSelect EXCEPT ![g].value = selectedDistrictName]
    /\ LET selectedProvinceName == provinceSelect[g].value
           province == IF selectedProvinceName = "" THEN <<>>
                       ELSE ProvinceNamed(selectedProvinceName)
           district == IF province = <<>> THEN <<>>
                       ELSE DistrictNamed(province[1], selectedDistrictName)
       IN  municipalitySelect' =
               [municipalitySelect EXCEPT ![g] =
                   IF \/ selectedDistrictName = ""
                      \/ selectedProvinceName = ""
                      \/ locationData = <<>>
                      \/ ~Truthy(locationData[1].provinces)
                      \/ district = <<>>
                   THEN SelectOf(<<>>)
                   ELSE SelectOf(district[1].municipalities)]
    /\ UNCHANGED provinceSelect

\* the user picks an entry of the municipality select (it has no handler)
PickMunicipality(g, name) ==
    /\ municipalitySelect' = [municipalitySelect EXCEPT ![g].value = name]
    /\ UNCHANGED <<provinceSelect, districtSelect>>

\* the entries a user can pick in a select
Entries(select) == {""} \cup {select.options[i] : i \in 1..Len(select.options)}

----------------------------------------------------------------------------
(* SpecDrop: the address groups of a form generated after the location data
   was loaded from the API or from the built-in list *)

DropRest == <<capVars, orchVars, procVars, ctcVars, tessVars, ocrVars, cropVars,
              locVars, docVars, submitVars>>

ChangeProvince ==
    \E g \in AddressGroups : \E name \in Entries(provinceSelect[g]) :
        HandleProvinceChange(g, name) /\ UNCHANGED DropRest
ChangeDistrict ==
    \E g \in AddressGroups : \E name \in Entries(districtSelect[g]) :
        HandleDistrictChange(g, name) /\ UNCHANGED DropRest
ChangeMunicipality ==
    \E g \in AddressGroups : \E name \in Entries(municipalitySelect[g]) :
        PickMunicipality(g, name) /\ UNCHANGED DropRest

InitDrop ==
    /\ CapInit /\ OrchInit /\ ProcIdle /\ CtcIdle /\ TessInit /\ OcrIdle /\ CropIdle
    /\ DocIdle /\ SubmitIdle
    /\ locationData \in {LocationObject(LocArray(ApiProvinces), "api"),
                          NEPAL_LOCATIONS_FALLBACK}
    /\ locationDataPromise = 0
    /\ locLoads = <<[pc |-> "done", by |-> "initial"]>>
    /\ locEnsures = <<>>
    /\ CreateFieldElements(provinceSelect, districtSelect, municipalitySelect, <<>>)
NextDrop == ChangeProvince \/ ChangeDistrict \/ ChangeMunicipality
SpecDrop == InitDrop /\ [][NextDrop]_vars

----------------------------------------------------------------------------
(* C21 *)

\* the districts of the selected province of group g, and the municipalities
\* of the selected district of that province
DistrictsOfSelected(g) ==
    LET province == IF provinceSelect[g].value = "" THEN <<>>
                    ELSE ProvinceNamed(provinceSelect[g].value)
    IN  IF province = <<>> THEN {}
        ELSE {province[1].districts[i].district_name :
                  i \in 1..Len(province[1].districts)}
MunicipalitiesOfSelected(g) ==
    LET province == IF provinceSelect[g].value = "" THEN <<>>
                    ELSE ProvinceNamed(provinceSelect[g].value)
        district == IF province = <<>> \/ districtSelect[g].value = "" THEN <<>>
                    ELSE DistrictNamed(province[1], districtSelect[g].value)
    IN  IF district = <<>> THEN {}
        ELSE {district[1].municipalities[i] : i \in 1..Len(district[1].municipalities)}

\* C21 as claimed: after any sequence of province and district selections in
\* an address group, every option of its district select is a district of the
\* selected province and every option of its municipality select is a
\* municipality of the selected district of that province.
C21_AsClaimed ==
    \A g \in AddressGroups :
        /\ \A i \in 1..Len(districtSelect[g].options) :
               districtSelect[g].options[i] \in DistrictsOfSelected(g)
        /\ \A i \in 1..Len(municipalitySelect[g].options) :
               municipalitySelect[g].options[i] \in MunicipalitiesOfSelected(g)

----------------------------------------------------------------------------
(* The document flow of the app script (offline_handwriting.js:481-529,
   869-887, 1138-1172, 1210-1247, 1335-1347).  The data a user enters into a
   form is named by the document whose fields the form shows.  startedNew is a
   history variable: startNew() has run and no valid form submit since. *)

DocTypes == {"birth", "citizenship"}
InputMethods == {"text", "freehand"}

\* selectDocument(documentType), up to the await of fetch in
\* loadDocumentTemplate
SelectDocument(documentType) ==
    /\ selectedDocument' = documentType
    /\ loadingHidden' = FALSE
    /\ selectCalls' = Append(selectCalls, [doc |-> documentType, pc |-> "fetch", ensure |-> 0])
    /\ UNCHANGED <<selectedInputMethod, formData, windowFormData, formFields,
                   pdfRequests, startedNew, locVars, dropVars>>

\* the template fetch of call k settles; when the promise of
\* loadDocumentTemplate rejects, the catch handler of selectDocument runs
TemplateFetchSettle(k, outcome) ==
    /\ selectCalls[k].pc = "fetch"
    /\ IF outcome = "ok"
       THEN /\ selectCalls' = [selectCalls EXCEPT ![k].pc = "json"]
            /\ UNCHANGED loadingHidden
       ELSE /\ selectCalls' = [selectCalls EXCEPT ![k].pc = "failed"]
            /\ loadingHidden' = TRUE
    /\ UNCHANGED <<selectedDocument, selectedInputMethod, formData, windowFormData,
                   formFields, pdfRequests, startedNew, locVars, dropVars>>

\* response.json() of call k settles: a template with form_fields, up to the
\* await of ensureLocationData(); or no such template, or a parse error
TemplateJsonSettle(k, outcome) ==
    /\ selectCalls[k].pc = "json"
    /\ IF outcome = "template"
       THEN /\ EnsureLocationData(k)
            /\ selectCalls' = [selectCalls EXCEPT ![k].pc = "ensure",
                                                  ![k].ensure = Len(locEnsures) + 1]
            /\ UNCHANGED loadingHidden
       ELSE /\ selectCalls' = [selectCalls EXCEPT ![k].pc = "failed"]
            /\ loadingHidden' = TRUE
            /\ UNCHANGED locVars
    /\ UNCHANGED <<selectedDocument, selectedInputMethod, formData, windowFormData,
                   formFields, pdfRequests, startedNew, dropVars>>

\* the promise of ensureLocationData() awaited by call k is resolved:
\* generateFormFields, then the then handler of selectDocument
TemplateEnsureSettle(k) ==
    /\ selectCalls[k].pc = "ensure"
    /\ LET e == locEnsures[selectCalls[k].ensure]
       IN  IF e.promise = 0 THEN TRUE ELSE locLoads[e.promise].pc = "done"
    /\ formFields' = selectCalls[k].doc
    /\ CreateFieldElements(provinceSelect', districtSelect', municipalitySelect', <<>>)
    /\ selectCalls' = [selectCalls EXCEPT ![k].pc = "done"]
    /\ loadingHidden' = TRUE
    /\ UNCHANGED <<selectedDocument, selectedInputMethod, formData, windowFormData,
                   pdfRequests, startedNew, locVars>>

\* selectInputMethod(method)
SelectInputMethod(method) ==
    /\ selectedInputMethod' = method
    /\ UNCHANGED <<selectedDocument, formData, windowFormData, selectCalls, formFields,
                   pdfRequests, loadingHidden, startedNew, locVars, dropVars>>

\* handleFormSubmit on the generated form: with every required field filled
\* the collected data are stored, else an error is shown
HandleFormSubmit(isValid) ==
    /\ formFields # "none"
    /\ IF isValid
       THEN windowFormData' = formFields /\ startedNew' = FALSE
       ELSE UNCHANGED <<windowFormData, startedNew>>
    /\ UNCHANGED <<selectedDocument, selectedInputMethod, formData, selectCalls,
                   formFields, pdfRequests, loadingHidden, locVars, dropVars>>

\* generatePDF, up to the await of fetch: the request body
GeneratePDF ==
    /\ loadingHidden' = FALSE
    /\ pdfRequests' = Append(pdfRequests,
                             [document_type |-> selectedDocument,
                              user_data |-> windowFormData,
                              afterStartNew |-> startedNew,
                              pc |-> "fetch"])
    /\ UNCHANGED <<selectedDocument, selectedInputMethod, formData, windowFormData,
                   selectCalls, formFields, startedNew, locVars, dropVars>>

\* the request of generatePDF call k settles, whatever the answer: finally
PdfSettle(k) ==
    /\ pdfRequests[k].pc = "fetch"
    /\ pdfRequests' = [pdfRequests EXCEPT ![k].pc = "done"]
    /\ loadingHidden' = TRUE
    /\ UNCHANGED <<selectedDocument, selectedInputMethod, formData, windowFormData,
                   selectCalls, formFields, startedNew, locVars, dropVars>>

\* startNew(): the three let bindings, and form.reset() puts every select
\* back on its first entry
StartNew ==
    /\ selectedDocument' = "null"
    /\ selectedInputMethod' = "null"
    /\ formData' = "empty"
    /\ provinceSelect' = [g \in AddressGroups |-> [provinceSelect[g] EXCEPT !.value = ""]]
    /\ districtSelect' = [g \in AddressGroups |-> [districtSelect[g] EXCEPT !.value = ""]]
    /\ municipalitySelect' =
           [g \in AddressGroups |-> [municipalitySelect[g] EXCEPT !.value = ""]]
    /\ startedNew' = TRUE
    /\ UNCHANGED <<windowFormData, selectCalls, formFields, pdfRequests, loadingHidden,
                   locVars>>

----------------------------------------------------------------------------
(* SpecDoc: the document flow with the location data it waits for.  The
   locations API answers with a province list or with none. *)

DocRest == <<capVars, orchVars, procVars, ctcVars, tessVars, ocrVars, cropVars,
             submitVars>>
DocApiAnswers ==
    { [shape |-> "english", provinces |-> LocArray(ApiProvinces)],
      [shape |-> "other", provinces |-> LocOther("absent")] }

DocLoadInitial == LoadInitialData /\ UNCHANGED <<dropVars, docVars, DocRest>>
DocLocFetch ==
    \E l \in 1..Len(locLoads), o \in {"not ok", "ok"} :
        LocFetchSettle(l, o) /\ UNCHANGED <<dropVars, docVars, DocRest>>
DocLocJson ==
    \E l \in 1..Len(locLoads), answer \in DocApiAnswers :
        LocJsonSettle(l, TRUE, answer) /\ UNCHANGED <<dropVars, docVars, DocRest>>
DocSelect ==
    /\ Len(selectCalls) < MaxSelectCalls
    /\ \E d \in DocTypes : SelectDocument(d)
    /\ UNCHANGED DocRest
DocTemplateFetch ==
    \E k \in 1..Len(selectCalls), o \in {"not ok", "ok"} :
        TemplateFetchSettle(k, o) /\ UNCHANGED DocRest
DocTemplateJson ==
    \E k \in 1..Len(selectCalls), o \in {"template", "no form_fields"} :
        TemplateJsonSettle(k, o) /\ UNCHANGED DocRest
DocTemplateEnsure ==
    \E k \in 1..Len(selectCalls) : TemplateEnsureSettle(k) /\ UNCHANGED DocRest
DocInputMethod ==
    \E m \in InputMethods : SelectInputMethod(m) /\ UNCHANGED DocRest
DocFormSubmit ==
    \E isValid \in BOOLEAN : HandleFormSubmit(isValid) /\ UNCHANGED DocRest
DocGeneratePDF ==
    /\ Len(pdfRequests) < MaxPdfRequests
    /\ GeneratePDF
    /\ UNCHANGED DocRest
DocPdfSettle ==
    \E k \in 1..Len(pdfRequests) : PdfSettle(k) /\ UNCHANGED DocRest
DocStartNew == StartNew /\ UNCHANGED DocRest

InitDoc ==
    /\ CapInit /\ OrchInit /\ ProcIdle /\ CtcIdle /\ TessInit /\ OcrIdle /\ CropIdle
    /\ AppIdle
NextDoc ==
    \/ DocLoadInitial \/ DocLocFetch \/ DocLocJson
    \/ DocSelect \/ DocTemplateFetch \/ DocTemplateJson \/ DocTemplateEnsure
    \/ DocInputMethod \/ DocFormSubmit \/ DocGeneratePDF \/ DocPdfSettle
    \/ DocStartNew
SpecDoc == InitDoc /\ [][NextDoc]_vars

----------------------------------------------------------------------------
(* C23 *)

\* C23 as claimed: startNew() leaves the selected document, the selected
\* input method and the stored form data cleared, and a generatePDF issued
\* after startNew and before a new valid form submit sends no form data.
C23_AsClaimed ==
    /\ [][StartNew => /\ selectedDocument' = "null"
                      /\ selectedInputMethod' = "null"
                      /\ windowFormData' = "undefined"]_vars
    /\ [](\A k \in 1..Len(pdfRequests) :
             pdfRequests[k].afterStartNew => pdfRequests[k].user_data = "undefined")

----------------------------------------------------------------------------
(* C28 *)

\* every selectDocument call has settled, and the latest one, whose document
\* is the selected one, has generated its form
AllSelectsSettled ==
    /\ selectCalls # <<>>
    /\ \A k \in 1..Len(selectCalls) : selectCalls[k].pc \in {"done", "failed"}
    /\ selectCalls[Len(selectCalls)].pc = "done"
    /\ selectedDocument = selectCalls[Len(selectCalls)].doc

\* C28 as claimed: once overlapping selectDocument calls have all settled,
\* the form fields shown are those of the template of selectedDocument.
C28_AsClaimed == AllSelectsSettled => formFields = selectedDocument

----------------------------------------------------------------------------
(* submitFieldCanvasOffline (offline_handwriting.js:182-282).  A call records
   its position, whether it showed the loading overlay, the recognizeOffline
   invocation it awaits, the text recognized (offline or by the server), and
   how it ended.  Texts are sequences of characters, <<>> being ''.  What a call
   reads from outside when it gets there is an input of the step: the
   enableFallback flag of the exposed CONFIG, whether correctNepaliGrammar is
   defined, and the target of the write (a field state, an input element, no
   element, or a field state whose setValue throws). *)

SubmitTexts   == {<<>>, <<"KA">>}
ResultTexts   == {<<>>, <<" ">>, <<" ", "KA">>}
FieldTargets  == {"state", "input", "missing", "throws"}

NewSubmit ==
    [pc |-> "start", shown |-> FALSE, call |-> 0, recognizedText |-> <<>>,
     wrote |-> FALSE, path |-> "none"]

\* the call leaves the function
Completed(c, path) == [c EXCEPT !.pc = "done", !.path = path]

\* the overlay once the step is over, hideLoading() being called in a try
\* block that an exception leaves
OverlayAfter_TryOnly(c, before) ==
    IF c.pc = "done" /\ c.path # "error" THEN TRUE ELSE before

\* the overlay once the step is over: finally { hideLoading() }
OverlayAfter(c, before) ==
    IF c.pc = "done" THEN TRUE ELSE before

\* lines 243-262: the field update, which may throw
ApplyText(c, text, target) ==
    IF target = "throws"
    THEN [call |-> Completed(c, "error"), field |-> fieldValue]
    ELSE IF target = "missing"
    THEN [call |-> Completed(c, "applied"), field |-> fieldValue]
    ELSE [call |-> [Completed(c, "applied") EXCEPT !.wrote = TRUE], field |-> text]

\* lines 230-271, from the recognized text to the next await or the end
AfterRecognition(c, text, enableFallback, hasGrammar, target) ==
    IF text = <<>>
    THEN IF enableFallback
         THEN [call |-> [c EXCEPT !.pc = "fallback"], field |-> fieldValue]
         ELSE [call |-> Completed(c, "not recognized"), field |-> fieldValue]
    ELSE IF hasGrammar
         THEN [call |-> [c EXCEPT !.pc = "grammar", !.recognizedText = text],
               field |-> fieldValue]
         ELSE ApplyText([c EXCEPT !.recognizedText = text], text, target)

SubmitFrame ==
    UNCHANGED <<selectedDocument, selectedInputMethod, formData, windowFormData,
                selectCalls, formFields, pdfRequests, startedNew,
                capVars, procVars, ctcVars, tessVars, ocrVars, cropVars,
                locVars, dropVars>>
OrchFrame ==
    UNCHANGED <<recognizer, isModelLoaded, modelLoadPromise, modelLoadError,
                promises, inits, calls, microtasks, modulesLoaded>>

\* submitFieldCanvasOffline is called, up to its first await or its end.
\* ready: there is an active field and a canvas with content.
SubmitFieldCanvasOffline(ready, enableFallback) ==
    /\ microtasks = <<>>
    /\ IF ~ready
       THEN /\ submitCalls' = Append(submitCalls, Completed(NewSubmit, "early"))
            /\ UNCHANGED <<loadingHidden, fieldValue>>
            /\ OrchFrame
       ELSE IF isModelLoaded /\ "modalCanvas" \in DOMAIN strokeCaptures
       THEN /\ RecognizeOfflineBody("modalCanvas")
            /\ submitCalls' = Append(submitCalls,
                                     [NewSubmit EXCEPT !.shown = TRUE, !.pc = "recognize",
                                                       !.call = Len(calls) + 1])
            /\ loadingHidden' = FALSE
            /\ UNCHANGED fieldValue
       ELSE LET r == AfterRecognition([NewSubmit EXCEPT !.shown = TRUE], <<>>,
                                      enableFallback, FALSE, "missing")
            IN  /\ submitCalls' = Append(submitCalls, r.call)
                /\ loadingHidden' = OverlayAfter(r.call, FALSE)
                /\ fieldValue' = r.field
                /\ OrchFrame
    /\ SubmitFrame

\* the recognizeOffline invocation that call s awaits has completed: a result
\* with a text, an empty result, or an error, which the inner catch swallows
SubmitRecognized(s, resultText, enableFallback, hasGrammar, target) ==
    /\ submitCalls[s].pc = "recognize"
    /\ calls[submitCalls[s].call].pc = "done"
    /\ LET text == IF calls[submitCalls[s].call].result = "text"
                   THEN Trim(resultText) ELSE <<>>
           r == AfterRecognition(submitCalls[s], text, enableFallback, hasGrammar, target)
       IN  /\ submitCalls' = [submitCalls EXCEPT ![s] = r.call]
           /\ loadingHidden' = OverlayAfter(r.call, loadingHidden)
           /\ fieldValue' = r.field
    /\ OrchFrame
    /\ SubmitFrame

\* recognizeViaServer of call s settles: it throws, or returns a text
SubmitFallbackSettle(s, threw, text, hasGrammar, target) ==
    /\ submitCalls[s].pc = "fallback"
    /\ LET r == IF threw
                THEN [call |-> Completed(submitCalls[s], "error"), field |-> fieldValue]
                ELSE AfterRecognition(submitCalls[s], text, FALSE, hasGrammar, target)
       IN  /\ submitCalls' = [submitCalls EXCEPT ![s] = r.call]
           /\ loadingHidden' = OverlayAfter(r.call, loadingHidden)
           /\ fieldValue' = r.field
    /\ OrchFrame
    /\ SubmitFrame

\* correctNepaliGrammar of call s settles: it throws, or returns a text
SubmitGrammarSettle(s, threw, text, target) ==
    /\ submitCalls[s].pc = "grammar"
    /\ LET r == IF threw
                THEN [call |-> Completed(submitCalls[s], "error"), field |-> fieldValue]
                ELSE ApplyText(submitCalls[s], text, target)
       IN  /\ submitCalls' = [submitCalls EXCEPT ![s] = r.call]
           /\ loadingHidden' = OverlayAfter(r.call, loadingHidden)
           /\ fieldValue' = r.field
    /\ OrchFrame
    /\ SubmitFrame

----------------------------------------------------------------------------
(* SpecSubmit: calls of submitFieldCanvasOffline on a page whose model is
   loaded or was never loaded, with the recognizeOffline invocations they
   make *)

SubCall ==
    /\ Len(submitCalls) < MaxSubmitCalls
    /\ \E ready \in BOOLEAN, enableFallback \in BOOLEAN :
           SubmitFieldCanvasOffline(ready, enableFallback)
SubRecognized ==
    \E s \in 1..Len(submitCalls), resultText \in ResultTexts, enableFallback \in BOOLEAN,
       hasGrammar \in BOOLEAN, target \in FieldTargets :
        SubmitRecognized(s, resultText, enableFallback, hasGrammar, target)
SubFallbackSettle ==
    \E s \in 1..Len(submitCalls), threw \in BOOLEAN, text \in SubmitTexts,
       hasGrammar \in BOOLEAN, target \in FieldTargets :
        SubmitFallbackSettle(s, threw, text, hasGrammar, target)
SubGrammarSettle ==
    \E s \in 1..Len(submitCalls), threw \in BOOLEAN, text \in SubmitTexts,
       target \in FieldTargets :
        SubmitGrammarSettle(s, threw, text, target)

\* the captures of a page: none, an empty one, one with a stroke
SubmitCaptures ==
    { [c \in {} |-> NewCapture],
      [c \in {"modalCanvas"} |-> NewCapture],
      [c \in {"modalCanvas"} |->
          OnPointerUp(OnPointerDown(NewCapture, [clientX |-> 1, clientY |-> 0]))] }

InitSubmit ==
    /\ ProcIdle /\ CtcIdle /\ TessInit /\ OcrIdle /\ CropIdle /\ AppIdle
    /\ strokeCaptures \in SubmitCaptures
    /\ modulesLoaded = TRUE
    /\ modelLoadError = "null"
    /\ calls = <<>>
    /\ microtasks = <<>>
    /\ \/ /\ recognizer = 0 /\ isModelLoaded = FALSE /\ modelLoadPromise = 0
          /\ promises = <<>> /\ inits = <<>>
       \/ /\ recognizer = 1 /\ isModelLoaded = TRUE /\ modelLoadPromise = 1
          /\ promises = <<[state |-> "resolved", afterFailure |-> FALSE]>>
          /\ inits = <<[pc |-> "done", rec |-> 1]>>
NextSubmit ==
    \/ SubCall \/ RunMicrotask \/ OrchRecognizeSettle
    \/ SubRecognized \/ SubFallbackSettle \/ SubGrammarSettle
SpecSubmit == InitSubmit /\ [][NextSubmit]_vars

----------------------------------------------------------------------------
(* C29 *)

\* call s leaves the function in this step
CompletesNow(s) ==
    /\ submitCalls'[s].pc = "done"
    /\ IF s <= Len(submitCalls) THEN submitCalls[s].pc # "done" ELSE TRUE

\* a call that showed the overlay leaves with the overlay hidden
HiddenOnCompletion ==
    \A s \in 1..Len(submitCalls') :
        CompletesNow(s) /\ submitCalls'[s].shown => loadingHidden'

\* the field changes only in a step in which a call writes it
ChangedOnlyByWrite ==
    fieldValue' # fieldValue =>
        \E s \in 1..Len(submitCalls') : CompletesNow(s) /\ submitCalls'[s].wrote

\* C29: every submitFieldCanvasOffline call that showed the loading overlay
\* has hidden it when it completes, on every path, and the target field is
\* written only by a call that recognized a non-empty text.
C29_HidesAndWrites ==
    /\ [][HiddenOnCompletion /\ ChangedOnlyByWrite]_vars
    /\ [](\A s \in 1..Len(submitCalls) :
             submitCalls[s].wrote => submitCalls[s].recognizedText # <<>>)

\* a call ended by an exception after it showed the overlay and another wrote
\* the field, and the overlay is hidden
C29_Witness ==
    /\ loadingHidden
    /\ \E s \in 1..Len(submitCalls) :
           submitCalls[s].shown /\ submitCalls[s].path = "error"
    /\ \E s \in 1..Len(submitCalls) :
           submitCalls[s].wrote /\ fieldValue = submitCalls[s].recognizedText

====
